---- MODULE Spec2Model ----
(***************************************************************************)
(* Trust-and-session core of the Shopify public app:                       *)
(*   src/src/storage.ts  - sessions, state nonces and webhook log, each    *)
(*                         an in-memory collection written through to a    *)
(*                         JSON file                                       *)
(*   src/src/shopify.ts  - OAuth helpers, HMAC checks, retrying client     *)
(*   src/src/server.ts   - the express routes (lines 106-244)              *)
(* Every async function is a process that moves from one await to the      *)
(* next; what runs between two awaits is one atomic step of the event loop.*)
(***************************************************************************)
EXTENDS FiniteSets, Integers, Sequences, TLC

\* ------------------------------------------------------------------ bounds
MaxProcs  == 2     \* requests that can be in flight together
MaxNonces == 2     \* handshakes begun
MaxRestarts == 1   \* restarts of the process
MaxDeliveries == 2 \* webhook deliveries that pass verification
MaxPages == 2      \* pages of the longest chain the upstream serves
MaxLen == 5        \* length of the longest shop parameter, in characters

\* ------------------------------------------------------- program constants
stateTtlMs == 300000
MAX_RETRIES == 3
BASE_DELAY_MS == 500

ShopA == "shop-a.myshopify.com"
ShopB == "shop-b.myshopify.com"
Shops == {ShopA, ShopB}
\* a shop parameter sanitizeShopDomain rejects, and a missing parameter
BadShop == "shop-a.myshopify.com.evil.example"
Missing == ""

\* HTTP statuses the upstream answers with: success, a client error, throttled,
\* a server error
Statuses == {200, 404, 429, 503}

\* the statuses a direct call of shopifyRequest is answered with: these and
\* the ends of the 2xx and 5xx ranges
AllStatuses == Statuses \cup {204, 302, 500, 599, 600}

\* faulty variant: deletions are not subscribed to
Topics_NoDelete == <<"products/create", "products/update">>
\* const topics = [...] in registerProductWebhooks
Topics == <<"products/create", "products/update", "products/delete">>

\* The instants at which Date.now() is sampled: 0, the TTL, and one
\* millisecond later, so that the age of a nonce falls below, on, and above
\* stateTtlMs.
TickStep(t) == IF t = 0 THEN stateTtlMs ELSE 1
LastInstant == stateTtlMs + 1

Procs  == 1..MaxProcs
\* The values crypto.randomBytes(16) yields, in the order it yields them.
Nonces == 1..MaxNonces
NoNonce == 0            \* the state parameter is undefined or ''

VARIABLES
  initialized,    \* storage.ts: let initialized
  initPromise,    \* storage.ts: let initPromise: "null", "pending", "fulfilled", "rejected"
  initStep,       \* the await initialize() is suspended at
  sessions,       \* storage.ts: const sessions (Map by shopDomain)
  states,         \* storage.ts: const states (Map by nonce)
  webhookEvents,  \* storage.ts: const webhookEvents (array)
  sessionFile,    \* data/sessions.json
  stateFile,      \* data/states.json
  webhookFile,    \* data/product_webhooks.json
  procs,          \* the async calls in flight, each at its await
  now,            \* Date.now()
  restarts,       \* how often the process was restarted
  nextNonce,      \* the next value of crypto.randomBytes(16)
  issued,         \* the states buildAuthUrl has handed out
  lookups,        \* per nonce: consumeState has looked it up
  tried,          \* per nonce: the validateState calls that ended
  accepts,        \* per nonce: validateState calls that returned true (0, 1, more)
  emptyCalls,     \* results of validateState calls without a state parameter
  exchanged,      \* per nonce: callbacks that called exchangeToken (0, 1, more)
  subscribed,     \* the webhook subscriptions requested upstream
  replies,        \* the responses the routes have sent
  delivery,       \* the webhook delivery received last and what verification gave
  signedBodies,   \* the bodies received with a header that is their signature
  posts,          \* deliveries that passed verifyWebhookHmac
  signedPosts,    \* deliveries received whose header is the signature of the body
  listed,         \* what listWebhooks() returned last
  call,           \* the shopifyRequest call that ended last
  completed,      \* per storefront: the session of the saveSession completed last
  loaded,         \* what loadSession() returned last, and completed then
  atRestart,      \* the three collections in memory when the process was stopped last
  catalog,        \* the chain of pages the upstream serves: the products of each page
  walk,           \* the pages repeated fetchProductsPage calls returned, each called
                  \* with the nextPageInfo of the one before
  fetched,        \* how fetchProducts() ended last and what it returned
  request,        \* the products request sent upstream last
  registration,   \* how the registerProductWebhooks() call that ended last went
  sanitized,      \* the sanitizeShopDomain() call made last: input and result
  verified        \* the verifyCallbackHmac() call made last: query and result

vars == <<initialized, initPromise, initStep, sessions, states, webhookEvents,
          sessionFile, stateFile, webhookFile, procs, now, restarts, nextNonce,
          issued, lookups, tried, accepts, emptyCalls, exchanged, subscribed, replies,
          delivery, signedBodies, posts, signedPosts, listed, call,
          completed, loaded, atRestart, catalog, walk, fetched, request, registration,
          sanitized, verified>>

storeVars == <<sessions, states, webhookEvents>>
fileVars  == <<sessionFile, stateFile, webhookFile>>
initVars  == <<initialized, initPromise, initStep>>
callVars  == <<lookups, tried, accepts, emptyCalls>>
routeVars == <<exchanged, subscribed, replies>>
pageVars  == <<catalog, walk, fetched, request>>
pureVars  == <<sanitized, verified>>
durVars   == <<completed, loaded, atRestart, pageVars, registration, pureVars>>
hookVars  == <<delivery, signedBodies, posts, signedPosts, listed, call, durVars>>
histVars  == <<restarts, nextNonce, issued, callVars, routeVars, hookVars>>

\* ---------------------------------------------------------------- records
StoredState(n, shop, t) == [nonce |-> n, shopDomain |-> shop, createdAt |-> t]

\* A file that does not exist yet (readFile fails with ENOENT).
NoFile == [exists |-> FALSE, data |-> {}]
File(d) == [exists |-> TRUE, data |-> d]

NoLogFile == [exists |-> FALSE, data |-> <<>>]

\* crypto.createHmac('sha256', key).update(message).digest(...): the digest
\* identifies the key and the message (no collisions).
Hmac(key, message) == [key |-> key, message |-> message]
NoHmac == [key |-> "", message |-> <<>>]
apiSecret == "SHOPIFY_API_SECRET"

\* digest('base64') of a SHA-256 HMAC: 32 bytes in 44 characters
DigestLength == 44

\* The value of the X-Shopify-Hmac-Sha256 header: what it encodes and how
\* many bytes Buffer.from(hmacHeader) has. NoHeader is the absent header.
Header(digest, encoding, length) ==
  [digest |-> digest, encoding |-> encoding, length |-> length]
NoHeader == Header(NoHmac, "none", 0)
Base64Digest(key, body) == Header(Hmac(key, body), "base64", DigestLength)

\* Request bodies and JSON.parse of them: a product with an id, an object
\* without id, and bytes that are not JSON (JSON.parse throws).
\* Number(payload.id) of an id that is not numeric, and what JSON.stringify
\* writes for it: NaN and null, told apart from the ids and instants
NaN == -1
Null == -2

Bodies == {"{\"id\":1}", "{}", "{\"id\":"}
\* and a product whose id is not numeric
BodiesAnyId == Bodies \cup {"{\"id\":\"x\"}"}
NoPayload == [parsed |-> FALSE, hasId |-> FALSE, id |-> 0]
JSONparse(body) ==
  CASE body = "{\"id\":1}" -> [parsed |-> TRUE, hasId |-> TRUE, id |-> 1]
    [] body = "{\"id\":\"x\"}" -> [parsed |-> TRUE, hasId |-> TRUE, id |-> NaN]
    [] body = "{}" -> [parsed |-> TRUE, hasId |-> FALSE, id |-> 0]
    [] OTHER -> NoPayload

Delivery(body, header, result) == [body |-> body, header |-> header, result |-> result]
NoDelivery == Delivery("", NoHeader, "none")

ProductWebhookEvent(id, shop, topic, payload, t) ==
  [id |-> id, shopDomain |-> shop, topic |-> topic, payload |-> payload, receivedAt |-> t]
NoEvent == ProductWebhookEvent(0, "", "", NoPayload, 0)

\* A shopifyRequest call that ended: its option, the statuses of the
\* responses it received, the requests it sent and how it ended.
EndedCall(retryOnThrottle, seen, fetches, outcome, delays) ==
  [retryOnThrottle |-> retryOnThrottle, seen |-> seen, fetches |-> fetches,
   delays |-> delays,
   outcome |-> outcome]
NoCall == EndedCall(TRUE, <<>>, 0, "none", <<>>)

\* The locals of one async call chain: the route (kind), the await it is
\* suspended at (pc) and what it holds across the await.
IdleProc == [kind |-> "none", pc |-> "idle", nonce |-> NoNonce, shop |-> "",
             createdAt |-> 0, entry |-> {}, payload |-> {}, first |-> FALSE,
             code |-> "", hmac |-> NoHmac, attempt |-> 0, retryOnThrottle |-> TRUE,
             topic |-> 0, fetches |-> 0, event |-> NoEvent, log |-> <<>>,
             seen |-> <<>>, delays |-> <<>>,
             pageInfo |-> 0, aggregated |-> <<>>, limit |-> 0, accepted |-> <<>>]

\* A registerProductWebhooks call that ended: the topics whose subscription
\* call returned, in order, the topic whose call threw, and how it ended.
Registration(shop, accepted, failed, outcome) ==
  [shop |-> shop, accepted |-> accepted, failed |-> failed, outcome |-> outcome]
NoRegistration == Registration("", <<>>, "", "none")

\* What a function returned, or that it threw.
Return(value) == [outcome |-> "return", value |-> value]
Throw == [outcome |-> "throw", value |-> <<>>]

StoredSession(shop, token, t) ==
  [shopDomain |-> shop, accessToken |-> token, scope |-> "read_products", createdAt |-> t]

\* the three collections of storage.ts
Store(s, t, w) == [sessions |-> s, states |-> t, webhookEvents |-> w]

\* sessions.get(shopDomain): the set is empty for undefined
SessionsGet(m, shop) == {e \in m : e.shopDomain = shop}

\* A result of loadSession(shop), and the session of the saveSession for
\* the shop that completed last before it returned.
Load(shop, session, latest) == [shop |-> shop, session |-> session, latest |-> latest]
NoLoad == Load("", {}, {})

\* sessions.set(session.shopDomain, session)
\* faulty variant: the map is left as it was
SessionsSet_Forgets(m, x) == m
SessionsSet(m, x) == {e \in m : e.shopDomain # x.shopDomain} \cup {x}

\* One validateState call that ended: whether it was the first lookup of its
\* nonce, the storefront it was given, whether consumeState found the nonce,
\* how it ended ("true", "false", "throw") and, for a nonce that was found,
\* Date.now() - match.createdAt at the expiry check.
Call(first, shop, stored, status, age) ==
  [first |-> first, shop |-> shop, stored |-> stored, status |-> status, age |-> age]

\* Map.prototype.set / get / delete on the states map
StatesSet(m, s)    == {e \in m : e.nonce # s.nonce} \cup {s}
StatesGet(m, n)    == {e \in m : e.nonce = n}
\* faulty variants of delete: the entry stays; the comparison is inverted
StatesDelete_Keeps(m, n)  == m
StatesDelete_Others(m, n) == {e \in m : e.nonce = n}
StatesDelete(m, n) == {e \in m : e.nonce # n}

Keys(m) == {e.nonce : e \in m}

\* ------------------------------------------------------------------- Init
Init ==
  /\ initialized = FALSE
  /\ initPromise = "null"
  /\ initStep = "idle"
  /\ sessions = {}
  /\ states = {}
  /\ webhookEvents = <<>>
  /\ sessionFile = NoFile
  /\ stateFile = NoFile
  /\ webhookFile = NoLogFile
  /\ procs = [p \in Procs |-> IdleProc]
  /\ now = 0
  /\ restarts = 0
  /\ nextNonce = 1
  /\ issued = {}
  /\ lookups = [n \in Nonces |-> FALSE]
  /\ tried = [n \in Nonces |-> {}]
  /\ accepts = [n \in Nonces |-> 0]
  /\ emptyCalls = {}
  /\ exchanged = [n \in Nonces |-> 0]
  /\ subscribed = {}
  /\ replies = {}
  /\ delivery = NoDelivery
  /\ signedBodies = {}
  /\ posts = 0
  /\ signedPosts = 0
  /\ listed = <<>>
  /\ call = NoCall
  /\ completed = [shop \in Shops |-> {}]
  /\ loaded = NoLoad
  /\ atRestart = Store({}, {}, <<>>)
  /\ catalog = <<>>
  /\ walk = <<>>
  /\ fetched = [outcome |-> "none", products |-> <<>>]
  /\ request = [sent |-> FALSE, limit |-> 0, pageInfo |-> 0]
  /\ registration = NoRegistration
  /\ sanitized = [called |-> FALSE, input |-> <<>>, result |-> Throw, again |-> Throw]
  /\ verified = [called |-> FALSE, signed |-> <<>>, entries |-> <<>>, result |-> FALSE]

\* A new request takes the lowest free slot (the slots are interchangeable).
Free(p) ==
  /\ procs[p].pc = "idle"
  /\ \A q \in Procs : q < p => procs[q].pc # "idle"

\* ------------------------------------------------------- ensureInitialized
\* faulty variant: a caller that finds the promise rejected starts initialize()
\* again
ensureInitializedCall_Retry ==
  /\ initialized' = initialized
  /\ initPromise' = IF ~initialized /\ initPromise \in {"null", "rejected"}
                     THEN "pending" ELSE initPromise
  /\ initStep' = IF ~initialized /\ initPromise \in {"null", "rejected"}
                  THEN "mkdir" ELSE initStep

\* The synchronous part of ensureInitialized(): the first caller starts
\* initialize(), which runs up to its first await (fs.mkdir).
ensureInitializedCall ==
  /\ initialized' = initialized
  /\ initPromise' = IF ~initialized /\ initPromise = "null" THEN "pending" ELSE initPromise
  /\ initStep' = IF ~initialized /\ initPromise = "null" THEN "mkdir" ELSE initStep

\* the positions at which an operation waits for ensureInitialized()
AwaitsInitialized ==
  {"saveSession", "loadSession", "saveState", "consumeState", "recordWebhook",
   "listWebhooks"}

\* faulty variant: the caller goes on as soon as initialize() was started
ensureInitializedDone_Started == initialized \/ initPromise # "null"
\* await ensureInitialized() can resume.
ensureInitializedDone == initialized \/ initPromise = "fulfilled"

\* initialize(): await fs.mkdir returned, restoreSessions() issues its readFile.
initialize ==
  /\ initStep = "mkdir"
  /\ initStep' = "sessions"
  /\ UNCHANGED <<initialized, initPromise, storeVars, fileVars, procs, now, histVars>>

\* parsed.forEach((session) => sessions.set(session.shopDomain, session))
restoreSessions ==
  /\ initStep = "sessions"
  /\ sessions' = {e \in sessions : \A f \in sessionFile.data : f.shopDomain # e.shopDomain}
                    \cup sessionFile.data
  /\ initStep' = "states"
  /\ UNCHANGED <<initialized, initPromise, states, webhookEvents, fileVars, procs,
                 now, histVars>>

\* parsed.forEach((state) => states.set(state.nonce, state))
restoreStates ==
  /\ initStep = "states"
  /\ states' = {e \in states : e.nonce \notin Keys(stateFile.data)} \cup stateFile.data
  /\ initStep' = "webhooks"
  /\ UNCHANGED <<initialized, initPromise, sessions, webhookEvents, fileVars, procs,
                 now, histVars>>

\* restoreSessions(), restoreStates() or restoreWebhooks() rethrows: readFile
\* was rejected with a code other than ENOENT (EACCES, EIO, EISDIR) or
\* JSON.parse threw on the content (storage.ts 58-62, 70-74, 78-80).
\* initialize() rejects and initPromise stays rejected; what was restored
\* before stays in the collections.
restoreThrows(step) ==
  /\ initStep = step
  /\ initStep' = "failed"
  /\ initPromise' = "rejected"
  /\ UNCHANGED <<initialized, storeVars, fileVars, procs, now, histVars>>

\* webhookEvents.push(...parsed); initialize() returns and initPromise is fulfilled.
restoreWebhooks ==
  /\ initStep = "webhooks"
  /\ webhookEvents' = webhookEvents \o webhookFile.data
  /\ initStep' = "done"
  /\ initPromise' = "fulfilled"
  /\ UNCHANGED <<initialized, sessions, states, fileVars, procs, now, histVars>>

\* ------------------------------------------------ GET /auth: buildAuthUrl
\* buildAuthUrl(shop): a fresh nonce, createdAt: Date.now(), then saveState()
\* runs up to await ensureInitialized().
buildAuthUrl(p, shop) ==
  /\ Free(p)
  /\ nextNonce \in Nonces
  /\ procs' = [procs EXCEPT ![p] = [IdleProc EXCEPT !.kind = "auth", !.pc = "saveState",
                                     !.nonce = nextNonce, !.shop = shop,
                                     !.createdAt = now]]
  /\ nextNonce' = nextNonce + 1
  /\ ensureInitializedCall
  /\ UNCHANGED <<storeVars, fileVars, now, hookVars, restarts, issued, callVars, routeVars>>

\* saveState after the await: states.set(state.nonce, state), then
\* persistStates() serialises the map and issues fs.writeFile.
saveState(p) ==
  /\ procs[p].pc = "saveState"
  /\ ensureInitializedDone
  /\ initialized' = TRUE
  /\ states' = StatesSet(states, StoredState(procs[p].nonce, procs[p].shop, procs[p].createdAt))
  /\ procs' = [procs EXCEPT ![p].pc = "persistStates", ![p].payload = states']
  /\ UNCHANGED <<initPromise, initStep, sessions, webhookEvents, fileVars, now, histVars>>

\* The write of saveState completed: buildAuthUrl returns the nonce and the
\* route redirects the merchant with it.
saveStateWritten(p) ==
  /\ procs[p].kind = "auth"
  /\ procs[p].pc = "persistStates"
  /\ stateFile' = File(procs[p].payload)
  /\ issued' = issued \cup {StoredState(procs[p].nonce, procs[p].shop, procs[p].createdAt)}
  /\ procs' = [procs EXCEPT ![p] = IdleProc]
  /\ UNCHANGED <<initVars, storeVars, sessionFile, webhookFile, now, hookVars, restarts, nextNonce,
                 callVars, routeVars>>

\* fs.writeFile rejected: saveState and buildAuthUrl throw, the route answers
\* 400 and no nonce is handed out.
saveStateFailed(p) ==
  /\ procs[p].kind = "auth"
  /\ procs[p].pc = "persistStates"
  /\ procs' = [procs EXCEPT ![p] = IdleProc]
  /\ UNCHANGED <<initVars, storeVars, fileVars, now, histVars>>

\* --------------------------------------------------------- validateState
\* faulty variant: a nonce whose age equals the TTL counts as expired
expired_AtTtl(t, createdAt) == t - createdAt >= stateTtlMs
\* Date.now() - match.createdAt > stateTtlMs
expired(t, createdAt) == t - createdAt > stateTtlMs

\* faulty variant: the storefront the nonce is bound to is not compared
validateResult_AnyShop(match, shop, t) ==
  IF match = {} THEN FALSE
  ELSE LET m == CHOOSE e \in match : TRUE IN ~expired(t, m.createdAt)

\* validateState lines 134-137, with match the entry consumeState returned.
validateResult(match, shop, t) ==
  IF match = {} THEN FALSE
  ELSE LET m == CHOOSE e \in match : TRUE IN
       IF expired(t, m.createdAt) THEN FALSE ELSE m.shopDomain = shop

CreatedAt(match) == (CHOOSE e \in match : TRUE).createdAt

Status(b) == IF b THEN "true" ELSE "false"

\* The state values a caller can present: a nonce it was handed (also one
\* that is consumed by now), or none.
StateParams == Keys(issued) \cup {NoNonce}

\* A response of a route: the status and what it reports.
Reply(route, status, what) == [route |-> route, status |-> status, what |-> what]

\* faulty variant: a catch block that answers as if nothing had been thrown
Caught_Ok(route) == Reply(route, 200, "ok")
\* The catch block of a route: GET /auth answers 400 (server.ts 150-153),
\* GET /auth/callback and POST /webhooks/products answer 500 (server.ts
\* 183-186, 231-234), each with the message of the error.
Caught(route) ==
  IF route = "auth" THEN Reply(route, 400, "error") ELSE Reply(route, 500, "error")

\* A call that ended is added to the record of its nonce.
Ended(n, c) ==
  /\ tried' = [tried EXCEPT ![n] = @ \cup {c}]
  /\ accepts' = [accepts EXCEPT ![n] = IF c.status = "true" /\ @ < 2 THEN @ + 1 ELSE @]

\* sanitizeShopDomain(shop) throws unless the trimmed input matches
\* /^[a-zA-Z0-9][a-zA-Z0-9-]*\.myshopify\.com$/: of the inputs drawn here the
\* two storefronts match.
sanitizeShopDomainThrows(shop) == shop \notin Shops

\* The message verifyCallbackHmac signs: the parameters other than hmac and
\* signature, sorted by key (code, shop, state).
Message(query) == <<query.code, query.shop, query.state>>

\* faulty variant: every query verifies
verifyCallbackHmac_Always(query) == TRUE

verifyCallbackHmac(query) == Hmac(apiSecret, Message(query)) = query.hmac

Query(p) == [shop |-> procs[p].shop, code |-> procs[p].code, state |-> procs[p].nonce,
             hmac |-> procs[p].hmac]

\* shopifyRequest after its fetch: a 2xx response is returned; a 429 or 5xx
\* is retried while retries are allowed and attempt < MAX_RETRIES; anything
\* else throws.
\* faulty variant: every status is retried
shouldRetry_Any(status) == TRUE

shouldRetry(status) == status = 429 \/ (status >= 500 /\ status < 600)

\* faulty variant: only a 200 counts as success
shopifyRequestOutcome_Only200(status, retryOnThrottle, attempt) ==
  IF status = 200 THEN "return"
  ELSE IF retryOnThrottle /\ shouldRetry(status) /\ attempt < MAX_RETRIES THEN "retry"
  ELSE "throw"

\* The x-shopify-shop-api-call-limit header of a response: absent, or the two
\* parts of its value split at "/" and converted with Number(); finite says
\* that both are finite numbers.
LimitHeader(present, finite, used, bucket) ==
  [present |-> present, finite |-> finite, used |-> used, bucket |-> bucket]
NoLimitHeader == LimitHeader(FALSE, FALSE, 0, 0)

\* 2^n
RECURSIVE Pow2(_)
Pow2(n) == IF n = 0 THEN 1 ELSE 2 * Pow2(n - 1)

\* faulty variant: the delay does not grow with the attempt
computeBackoff_Flat(attempt, jitter) == BASE_DELAY_MS + jitter

\* computeBackoff(attempt) (shopify.ts 217-220), jitter = Math.random() * 100
computeBackoff(attempt, jitter) == BASE_DELAY_MS * Pow2(attempt) + jitter

\* faulty variant: the extra delay without the base delay
throttleDelayFromHeaders_NoBase(header) ==
  IF ~header.present \/ ~header.finite \/ header.bucket = 0 THEN {}
  ELSE IF header.used * 10 < header.bucket * 8 THEN {}
  ELSE {(header.used * 1000) \div header.bucket - 800}

\* throttleDelayFromHeaders(response) (shopify.ts 226-234): the set is empty
\* for undefined. utilization = used / bucket, compared with 0.8; the delay
\* BASE_DELAY_MS + (utilization - 0.8) * 1000 in whole milliseconds.
throttleDelayFromHeaders(header) ==
  IF ~header.present \/ ~header.finite \/ header.bucket = 0 THEN {}
  ELSE IF header.used * 10 < header.bucket * 8 THEN {}
  ELSE {BASE_DELAY_MS + (header.used * 1000) \div header.bucket - 800}

\* throttleDelay ?? 0
OrZero(delay) == IF delay = {} THEN 0 ELSE CHOOSE d \in delay : TRUE

\* The delay shopifyRequest waits before a retry (shopify.ts 249-250), with
\* its parts: computeBackoff(attempt) + (throttleDelay ?? 0).
Backoff(attempt, jitter, header) ==
  [header |-> header,
   backoff |-> computeBackoff(attempt, jitter),
   extra |-> OrZero(throttleDelayFromHeaders(header)),
   total |-> computeBackoff(attempt, jitter) + OrZero(throttleDelayFromHeaders(header))]

\* faulty variant: one retry more
shopifyRequestOutcome_OneMore(status, retryOnThrottle, attempt) ==
  IF status >= 200 /\ status < 300 THEN "return"
  ELSE IF retryOnThrottle /\ shouldRetry(status) /\ attempt <= MAX_RETRIES THEN "retry"
  ELSE "throw"

shopifyRequestOutcome(status, retryOnThrottle, attempt) ==
  IF status >= 200 /\ status < 300 THEN "return"
  ELSE IF retryOnThrottle /\ shouldRetry(status) /\ attempt < MAX_RETRIES THEN "retry"
  ELSE "throw"

\* The callback route after validateState returned ret (server.ts 172-180):
\* false answers 400; then verifyCallbackHmac, false answers 400; then
\* exchangeToken sends its request, without retries.
callbackContinues(p, ret) ==
  LET n == procs[p].nonce IN
  IF ~ret
  THEN /\ replies' = replies \cup {Reply("callback", 400, "state")}
       /\ procs' = [procs EXCEPT ![p] = IdleProc]
       /\ UNCHANGED <<exchanged, subscribed>>
  ELSE IF ~verifyCallbackHmac(Query(p))
  THEN /\ replies' = replies \cup {Reply("callback", 400, "hmac")}
       /\ procs' = [procs EXCEPT ![p] = IdleProc]
       /\ UNCHANGED <<exchanged, subscribed>>
  ELSE /\ exchanged' = [exchanged EXCEPT ![n] = IF @ < 2 THEN @ + 1 ELSE @]
       /\ procs' = [procs EXCEPT ![p].pc = "fetchToken", ![p].retryOnThrottle = FALSE,
                                  ![p].attempt = 0, ![p].fetches = 1,
                                  ![p].entry = {}, ![p].payload = {}]
       /\ UNCHANGED <<replies, subscribed>>

\* validateState(state, shop): without a state it returns false at once;
\* otherwise consumeState() runs up to await ensureInitialized().
validateState(p, n, shop) ==
  /\ Free(p)
  /\ IF n = NoNonce
     THEN /\ emptyCalls' = emptyCalls \cup {Status(validateResult({}, shop, now))}
          /\ UNCHANGED <<procs, initVars>>
     ELSE /\ procs' = [procs EXCEPT ![p] = [IdleProc EXCEPT !.kind = "validate",
                                             !.pc = "consumeState", !.nonce = n,
                                             !.shop = shop]]
          /\ ensureInitializedCall
          /\ UNCHANGED emptyCalls
  /\ UNCHANGED <<storeVars, fileVars, now, hookVars, restarts, nextNonce, issued, lookups, tried,
                 accepts, routeVars>>

\* consumeState after the await: states.get(nonce); an entry is deleted and
\* persistStates() issues its write; without one consumeState returns
\* undefined and validateState returns false.
consumeState(p) ==
  /\ procs[p].pc = "consumeState"
  /\ ensureInitializedDone
  /\ initialized' = TRUE
  /\ LET n == procs[p].nonce
         entry == StatesGet(states, n) IN
     /\ lookups' = [lookups EXCEPT ![n] = TRUE]
     /\ IF entry # {}
        THEN /\ states' = StatesDelete(states, n)
             /\ procs' = [procs EXCEPT ![p].pc = "persistStates", ![p].entry = entry,
                                        ![p].payload = states', ![p].first = ~lookups[n]]
             /\ UNCHANGED <<tried, accepts>>
             /\ UNCHANGED routeVars
        ELSE /\ states' = states
             /\ Ended(n, Call(~lookups[n], procs[p].shop, FALSE,
                              Status(validateResult({}, procs[p].shop, now)), 0))
             /\ IF procs[p].kind = "callback"
                THEN callbackContinues(p, validateResult({}, procs[p].shop, now))
                ELSE /\ procs' = [procs EXCEPT ![p] = IdleProc]
                     /\ UNCHANGED routeVars
  /\ UNCHANGED <<initPromise, initStep, sessions, webhookEvents, fileVars, now, hookVars,
                 restarts, nextNonce, issued, emptyCalls>>

\* The write of consumeState completed: it returns the entry and validateState
\* checks expiry and storefront.
consumeStateWritten(p) ==
  /\ procs[p].kind = "validate"
  /\ procs[p].pc = "persistStates"
  /\ stateFile' = File(procs[p].payload)
  /\ Ended(procs[p].nonce,
           Call(procs[p].first, procs[p].shop, TRUE,
                Status(validateResult(procs[p].entry, procs[p].shop, now)),
                now - CreatedAt(procs[p].entry)))
  /\ procs' = [procs EXCEPT ![p] = IdleProc]
  /\ UNCHANGED <<initVars, storeVars, sessionFile, webhookFile, now, hookVars, restarts, nextNonce,
                 issued, lookups, emptyCalls, routeVars>>

\* fs.writeFile rejected: consumeState and validateState throw.
consumeStateFailed(p) ==
  /\ procs[p].kind = "validate"
  /\ procs[p].pc = "persistStates"
  /\ Ended(procs[p].nonce, Call(procs[p].first, procs[p].shop, TRUE, "throw", 0))
  /\ procs' = [procs EXCEPT ![p] = IdleProc]
  /\ UNCHANGED <<initVars, storeVars, fileVars, now, hookVars, restarts, nextNonce, issued, lookups,
                 emptyCalls, routeVars>>

\* await initPromise rejects (storage.ts 42): ensureInitialized() throws
\* before initialized = true, and so does the operation that awaited it;
\* validateState throws with consumeState, and the catch of the webhook route
\* answers 500.
ensureInitializedThrows(p) ==
  /\ procs[p].pc \in AwaitsInitialized
  /\ procs[p].kind \in {"session", "load", "auth", "validate", "list", "webhook"}
  /\ initPromise = "rejected"
  /\ IF procs[p].kind = "validate"
     THEN Ended(procs[p].nonce, Call(~lookups[procs[p].nonce], procs[p].shop, FALSE, "throw", 0))
     ELSE UNCHANGED <<tried, accepts>>
  /\ replies' = IF procs[p].kind = "webhook" THEN replies \cup {Caught("webhook")}
                 ELSE replies
  /\ procs' = [procs EXCEPT ![p] = IdleProc]
  /\ UNCHANGED <<initVars, storeVars, fileVars, now, hookVars, restarts, nextNonce, issued,
                 lookups, emptyCalls, exchanged, subscribed>>

\* ------------------------------------------------------------ GET /auth
\* GET /auth (server.ts 140-154) up to its first await: a missing shop
\* answers 400, a rejected shop domain is caught and answers 400; otherwise
\* buildAuthUrl() draws a nonce and saveState() runs up to its await.
auth(p, shop) ==
  /\ Free(p)
  /\ IF shop = Missing
     THEN /\ replies' = replies \cup {Reply("auth", 400, "missing")}
          /\ UNCHANGED <<procs, initVars, nextNonce>>
     ELSE IF sanitizeShopDomainThrows(shop)
     THEN /\ replies' = replies \cup {Caught("auth")}
          /\ UNCHANGED <<procs, initVars, nextNonce>>
     ELSE /\ nextNonce \in Nonces
          /\ procs' = [procs EXCEPT ![p] = [IdleProc EXCEPT !.kind = "authRoute",
                                             !.pc = "saveState", !.nonce = nextNonce,
                                             !.shop = shop, !.createdAt = now]]
          /\ nextNonce' = nextNonce + 1
          /\ ensureInitializedCall
          /\ UNCHANGED replies
  /\ UNCHANGED <<storeVars, fileVars, now, hookVars, restarts, issued, callVars,
                 exchanged, subscribed>>

\* The write of saveState completed within the route: buildAuthUrl returns
\* the url and res.redirect(url) answers 302.
authRedirect(p) ==
  /\ procs[p].kind = "authRoute"
  /\ procs[p].pc = "persistStates"
  /\ stateFile' = File(procs[p].payload)
  /\ issued' = issued \cup {StoredState(procs[p].nonce, procs[p].shop, procs[p].createdAt)}
  /\ replies' = replies \cup {Reply("auth", 302, "redirect")}
  /\ procs' = [procs EXCEPT ![p] = IdleProc]
  /\ UNCHANGED <<initVars, storeVars, sessionFile, webhookFile, now, hookVars, restarts,
                 nextNonce, callVars, exchanged, subscribed>>

\* fs.writeFile rejected within the route: saveState and buildAuthUrl throw
\* and the route's catch answers.
authCaught(p) ==
  /\ procs[p].kind = "authRoute"
  /\ procs[p].pc = "persistStates"
  /\ replies' = replies \cup {Caught("auth")}
  /\ procs' = [procs EXCEPT ![p] = IdleProc]
  /\ UNCHANGED <<initVars, storeVars, fileVars, now, hookVars, restarts, nextNonce, issued,
                 callVars, exchanged, subscribed>>

\* --------------------------------------------------------- /auth/callback
\* GET /auth/callback (server.ts 156-187) up to its first await: shop or code
\* missing and a rejected shop domain answer 400; validateState without a
\* state returns false; otherwise consumeState() runs up to its await.
callback(p, shop, code, n, hmac) ==
  /\ Free(p)
  /\ IF shop = Missing \/ code = Missing
     THEN /\ replies' = replies \cup {Reply("callback", 400, "missing")}
          /\ UNCHANGED <<procs, initVars, emptyCalls>>
     ELSE IF sanitizeShopDomainThrows(shop)
     THEN /\ replies' = replies \cup {Reply("callback", 400, "shop")}
          /\ UNCHANGED <<procs, initVars, emptyCalls>>
     ELSE IF n = NoNonce
     THEN /\ emptyCalls' = emptyCalls \cup {Status(validateResult({}, shop, now))}
          /\ replies' = replies \cup {Reply("callback", 400, "state")}
          /\ UNCHANGED <<procs, initVars>>
     ELSE /\ procs' = [procs EXCEPT ![p] = [IdleProc EXCEPT !.kind = "callback",
                                             !.pc = "consumeState", !.nonce = n,
                                             !.shop = shop, !.code = code,
                                             !.hmac = hmac]]
          /\ ensureInitializedCall
          /\ UNCHANGED <<emptyCalls, replies>>
  /\ UNCHANGED <<storeVars, fileVars, now, hookVars, restarts, nextNonce, issued, lookups, tried,
                 accepts, exchanged, subscribed>>

\* The write of consumeState completed within the callback: validateState
\* returns and the route continues.
callbackValidated(p) ==
  /\ procs[p].kind = "callback"
  /\ procs[p].pc = "persistStates"
  /\ stateFile' = File(procs[p].payload)
  /\ LET ret == validateResult(procs[p].entry, procs[p].shop, now) IN
     /\ Ended(procs[p].nonce,
              Call(procs[p].first, procs[p].shop, TRUE, Status(ret),
                   now - CreatedAt(procs[p].entry)))
     /\ callbackContinues(p, ret)
  /\ UNCHANGED <<initVars, storeVars, sessionFile, webhookFile, now, hookVars, restarts, nextNonce,
                 issued, lookups, emptyCalls>>

\* fs.writeFile rejected: validateState throws outside the route's try block
\* (server.ts 172); the route sends no response.
callbackStateFailed(p) ==
  /\ procs[p].kind = "callback"
  /\ procs[p].pc = "persistStates"
  /\ Ended(procs[p].nonce, Call(procs[p].first, procs[p].shop, TRUE, "throw", 0))
  /\ procs' = [procs EXCEPT ![p] = IdleProc]
  /\ UNCHANGED <<initVars, storeVars, fileVars, now, hookVars, restarts, nextNonce, issued, lookups,
                 emptyCalls, routeVars>>

\* The answer to exchangeToken's request (shopify.ts 107-127): a response
\* that is returned is parsed and saveSession() runs up to its await; a thrown
\* error reaches the route's catch, which answers 500.
tokenResponse(p, status) ==
  /\ procs[p].pc = "fetchToken"
  /\ LET outcome == shopifyRequestOutcome(status, procs[p].retryOnThrottle,
                                          procs[p].attempt) IN
     CASE outcome = "return" ->
            /\ procs' = [procs EXCEPT ![p].pc = "saveSession", ![p].createdAt = now]
            /\ ensureInitializedCall
            /\ UNCHANGED replies
       [] outcome = "retry" ->
            /\ procs' = [procs EXCEPT ![p].pc = "delayToken"]
            /\ UNCHANGED <<initVars, replies>>
       [] outcome = "throw" ->
            /\ procs' = [procs EXCEPT ![p] = IdleProc]
            /\ replies' = replies \cup {Reply("callback", 500, "error")}
            /\ UNCHANGED initVars
  /\ UNCHANGED <<storeVars, fileVars, now, hookVars, restarts, nextNonce, issued, callVars,
                 exchanged, subscribed>>

\* saveSession after the await (storage.ts 99-100): sessions.set and the
\* write of persistSessions() is issued with the map as it is now.
saveSession(p) ==
  /\ procs[p].pc = "saveSession"
  /\ ensureInitializedDone
  /\ initialized' = TRUE
  /\ sessions' = SessionsSet(sessions, StoredSession(procs[p].shop, procs[p].code,
                                                     procs[p].createdAt))
  /\ procs' = [procs EXCEPT ![p].pc = "persistSessions", ![p].payload = sessions']
  /\ UNCHANGED <<initPromise, initStep, states, webhookEvents, fileVars, now, histVars>>

\* The write of sessions.json completed: exchangeToken returns the session and
\* registerProductWebhooks sends the request for its first topic.
saveSessionWritten(p) ==
  /\ procs[p].kind = "callback"
  /\ procs[p].pc = "persistSessions"
  /\ sessionFile' = File(procs[p].payload)
  /\ procs' = [procs EXCEPT ![p].pc = "fetchWebhook", ![p].topic = 1,
                             ![p].retryOnThrottle = TRUE, ![p].attempt = 0,
                             ![p].fetches = 1, ![p].payload = {}]
  /\ subscribed' = subscribed \cup {[shop |-> procs[p].shop, topic |-> Topics[1]]}
  /\ UNCHANGED <<initVars, storeVars, stateFile, webhookFile, now, hookVars, restarts, nextNonce,
                 issued, callVars, exchanged, replies>>

\* fs.writeFile rejected: saveSession and exchangeToken throw, the route's
\* catch answers 500.
saveSessionFailed(p) ==
  /\ procs[p].kind = "callback"
  /\ procs[p].pc = "persistSessions"
  /\ procs' = [procs EXCEPT ![p] = IdleProc]
  /\ replies' = replies \cup {Caught("callback")}
  /\ UNCHANGED <<initVars, storeVars, fileVars, now, hookVars, restarts, nextNonce, issued,
                 callVars, exchanged, subscribed>>

\* The answer to a subscription request of registerProductWebhooks
\* (shopify.ts 266-282): returned, the loop goes on to the next topic or the
\* route answers success; retried after a delay; thrown, the route answers 500.
webhookResponse(p, status) ==
  /\ procs[p].pc = "fetchWebhook"
  /\ LET outcome == shopifyRequestOutcome(status, procs[p].retryOnThrottle,
                                          procs[p].attempt)
         topic == procs[p].topic
         accepted == Append(procs[p].accepted, Topics[topic])
         byRoute == procs[p].kind = "callback" IN
     CASE outcome = "return" /\ topic < Len(Topics) ->
            /\ procs' = [procs EXCEPT ![p].topic = topic + 1, ![p].attempt = 0,
                                       ![p].fetches = 1, ![p].accepted = accepted]
            /\ subscribed' = subscribed \cup {[shop |-> procs[p].shop,
                                                topic |-> Topics[topic + 1]]}
            /\ UNCHANGED <<replies, registration>>
       [] outcome = "return" /\ topic = Len(Topics) ->
            /\ procs' = [procs EXCEPT ![p] = IdleProc]
            /\ replies' = IF byRoute THEN replies \cup {Reply("callback", 200, "success")}
                           ELSE replies
            /\ registration' = IF byRoute THEN registration
                                ELSE Registration(procs[p].shop, accepted, "", "return")
            /\ UNCHANGED subscribed
       [] outcome = "retry" ->
            /\ procs' = [procs EXCEPT ![p].pc = "delayWebhook"]
            /\ UNCHANGED <<replies, subscribed, registration>>
       [] outcome = "throw" ->
            /\ procs' = [procs EXCEPT ![p] = IdleProc]
            /\ replies' = IF byRoute THEN replies \cup {Reply("callback", 500, "error")}
                           ELSE replies
            /\ registration' = IF byRoute THEN registration
                                ELSE Registration(procs[p].shop, procs[p].accepted,
                                                  Topics[topic], "throw")
            /\ UNCHANGED subscribed
  /\ UNCHANGED <<initVars, storeVars, fileVars, now, restarts, nextNonce, issued, callVars,
                 exchanged, delivery, signedBodies, posts, signedPosts, listed, call,
                 completed, loaded, atRestart, pageVars, pureVars>>

\* registerProductWebhooks(shop, accessToken) called by itself (shopify.ts
\* 263-268): a rejected shop domain throws before any request; otherwise the
\* request for the first topic is sent.
registerProductWebhooks(p, shop) ==
  /\ Free(p)
  /\ IF sanitizeShopDomainThrows(shop)
     THEN /\ registration' = Registration(shop, <<>>, "", "rejected")
          /\ UNCHANGED <<procs, subscribed>>
     ELSE /\ procs' = [procs EXCEPT ![p] = [IdleProc EXCEPT !.kind = "register",
                                             !.pc = "fetchWebhook", !.shop = shop,
                                             !.topic = 1, !.retryOnThrottle = TRUE,
                                             !.attempt = 0, !.fetches = 1]]
          /\ subscribed' = subscribed \cup {[shop |-> shop, topic |-> Topics[1]]}
          /\ UNCHANGED registration
  /\ UNCHANGED <<initVars, storeVars, fileVars, now, restarts, nextNonce, issued, callVars,
                 exchanged, replies, delivery, signedBodies, posts, signedPosts, listed,
                 call, completed, loaded, atRestart, pageVars, pureVars>>

\* The delay before a retry elapsed (shopify.ts 250-251): shopifyRequest calls
\* itself with attempt + 1 and sends the request again.
delayElapsed(p) ==
  /\ procs[p].pc \in {"delayToken", "delayWebhook", "delayRequest", "delayPage"}
  /\ procs' = [procs EXCEPT ![p].pc = CASE procs[p].pc = "delayToken" -> "fetchToken"
                                         [] procs[p].pc = "delayWebhook" -> "fetchWebhook"
                                         [] procs[p].pc = "delayRequest" -> "fetchRequest"
                                         [] procs[p].pc = "delayPage" -> "fetchPage",
                             ![p].attempt = @ + 1, ![p].fetches = @ + 1]
  /\ UNCHANGED <<initVars, storeVars, fileVars, now, histVars>>

\* ------------------------------------------------- saveSession, loadSession
\* saveSession(session) called by itself (storage.ts 97-98), up to
\* await ensureInitialized().
saveSessionCall(p, shop, token) ==
  /\ Free(p)
  /\ procs' = [procs EXCEPT ![p] = [IdleProc EXCEPT !.kind = "session",
                                      !.pc = "saveSession", !.shop = shop,
                                      !.code = token, !.createdAt = now]]
  /\ ensureInitializedCall
  /\ UNCHANGED <<storeVars, fileVars, now, histVars>>

\* The write of sessions.json completed: saveSession returns.
sessionWritten(p) ==
  /\ procs[p].kind = "session"
  /\ procs[p].pc = "persistSessions"
  /\ sessionFile' = File(procs[p].payload)
  /\ completed' = [completed EXCEPT ![procs[p].shop] =
                      {StoredSession(procs[p].shop, procs[p].code, procs[p].createdAt)}]
  /\ procs' = [procs EXCEPT ![p] = IdleProc]
  /\ UNCHANGED <<initVars, storeVars, stateFile, webhookFile, now, restarts, nextNonce,
                 issued, callVars, routeVars, delivery, signedBodies, posts, signedPosts,
                 listed, call, loaded, atRestart, pageVars, registration, pureVars>>

\* fs.writeFile rejected: saveSession throws.
sessionFailed(p) ==
  /\ procs[p].kind = "session"
  /\ procs[p].pc = "persistSessions"
  /\ procs' = [procs EXCEPT ![p] = IdleProc]
  /\ UNCHANGED <<initVars, storeVars, fileVars, now, histVars>>

\* loadSession(shopDomain) (storage.ts 103-104) up to await ensureInitialized().
loadSessionCall(p, shop) ==
  /\ Free(p)
  /\ procs' = [procs EXCEPT ![p] = [IdleProc EXCEPT !.kind = "load",
                                      !.pc = "loadSession", !.shop = shop]]
  /\ ensureInitializedCall
  /\ UNCHANGED <<storeVars, fileVars, now, histVars>>

\* loadSession after the await: sessions.get(shopDomain) is returned.
loadSession(p) ==
  /\ procs[p].pc = "loadSession"
  /\ ensureInitializedDone
  /\ initialized' = TRUE
  /\ loaded' = Load(procs[p].shop, SessionsGet(sessions, procs[p].shop),
                    completed[procs[p].shop])
  /\ procs' = [procs EXCEPT ![p] = IdleProc]
  /\ UNCHANGED <<initPromise, initStep, storeVars, fileVars, now, restarts, nextNonce,
                 issued, callVars, routeVars, delivery, signedBodies, posts, signedPosts,
                 listed, call, completed, atRestart, pageVars, registration, pureVars>>

\* ---------------------------------------------------------- shopifyRequest
\* shopifyRequest(url, options) called by itself (shopify.ts 236-237): the
\* first fetch is sent, attempt = 0.
shopifyRequest(p, retryOnThrottle) ==
  /\ Free(p)
  /\ procs' = [procs EXCEPT ![p] = [IdleProc EXCEPT !.kind = "request",
                                      !.pc = "fetchRequest",
                                      !.retryOnThrottle = retryOnThrottle,
                                      !.attempt = 0, !.fetches = 1]]
  /\ call' = NoCall
  /\ UNCHANGED <<initVars, storeVars, fileVars, now, restarts, nextNonce, issued,
                 callVars, routeVars, delivery, signedBodies, posts, signedPosts, listed,
                 durVars>>

\* The answer to the fetch of such a call (shopify.ts 239-254): the response
\* is returned, the request is repeated after a delay, or the call throws.
requestResponse(p, status, header, jitter) ==
  /\ procs[p].pc = "fetchRequest"
  /\ LET outcome == shopifyRequestOutcome(status, procs[p].retryOnThrottle,
                                          procs[p].attempt)
         seen == Append(procs[p].seen, status) IN
     IF outcome = "retry"
     THEN /\ procs' = [procs EXCEPT ![p].pc = "delayRequest", ![p].seen = seen,
                                     ![p].delays = Append(@, Backoff(procs[p].attempt,
                                                                     jitter, header))]
          /\ UNCHANGED call
     ELSE /\ procs' = [procs EXCEPT ![p] = IdleProc]
          /\ call' = EndedCall(procs[p].retryOnThrottle, seen, procs[p].fetches, outcome,
                               procs[p].delays)
  /\ UNCHANGED <<initVars, storeVars, fileVars, now, restarts, nextNonce, issued,
                 callVars, routeVars, delivery, signedBodies, posts, signedPosts, listed,
                 durVars>>

\* ------------------------------------------------------ /webhooks/products
\* verifyWebhookHmac(rawBody, hmacHeader) (shopify.ts 257-261): false without
\* a header; crypto.timingSafeEqual throws a RangeError when its two buffers
\* differ in byte length, and compares them otherwise. (apiSecret is set: the
\* module throws at load without it, shopify.ts 42-44.)
\* faulty variant: every delivery verifies
verifyWebhookHmac_Always(rawBody, hmacHeader) == "true"

verifyWebhookHmac(rawBody, hmacHeader) ==
  IF hmacHeader = NoHeader THEN "false"
  ELSE LET digest == Base64Digest(apiSecret, rawBody) IN
       IF digest.length # hmacHeader.length THEN "throw"
       ELSE IF digest = hmacHeader THEN "true" ELSE "false"


\* The header Shopify sent is the signature of this body.
Signed(body, header) ==
  /\ header.encoding = "base64"
  /\ header.digest = [key |-> apiSecret, message |-> body]

\* POST /webhooks/products (server.ts 218-235) up to its first await:
\* verification false answers 401, a throw of verifyWebhookHmac leaves the
\* route without a response; then JSON.parse, whose throw answers 500, and
\* recordProductWebhook up to await ensureInitialized().
webhookPost(p, body, header, topic, shop) ==
  /\ Free(p)
  /\ posts < MaxDeliveries
  /\ LET result == verifyWebhookHmac(body, header)
         payload == JSONparse(body)
         id == IF payload.hasId THEN payload.id ELSE now IN
     /\ delivery' = Delivery(body, header, result)
     /\ signedBodies' = IF Signed(body, header) THEN signedBodies \cup {body}
                         ELSE signedBodies
     /\ signedPosts' = IF Signed(body, header) /\ signedPosts < MaxDeliveries
                        THEN signedPosts + 1 ELSE signedPosts
     /\ CASE result = "false" ->
              /\ replies' = replies \cup {Reply("webhook", 401, "invalid hmac")}
              /\ UNCHANGED <<procs, initVars, posts>>
         [] result = "throw" ->
              /\ replies' = replies \cup {Reply("webhook", 0, "unhandled")}
              /\ UNCHANGED <<procs, initVars, posts>>
         [] result = "true" /\ ~payload.parsed ->
              /\ replies' = replies \cup {Reply("webhook", 500, "error")}
              /\ posts' = posts + 1
              /\ UNCHANGED <<procs, initVars>>
         [] result = "true" /\ payload.parsed ->
              /\ procs' = [procs EXCEPT ![p] =
                             [IdleProc EXCEPT !.kind = "webhook", !.pc = "recordWebhook",
                                !.event = ProductWebhookEvent(id, shop, topic, payload, now)]]
              /\ posts' = posts + 1
              /\ ensureInitializedCall
              /\ UNCHANGED replies
  /\ UNCHANGED <<storeVars, fileVars, now, restarts, nextNonce, issued, callVars,
                 exchanged, subscribed, listed, call, durVars>>

\* JSON.stringify(webhookEvents, null, 2) as JSON.parse reads it back: a
\* number that is NaN is written as null; finite numbers, strings and the
\* payload, which came from JSON.parse, are read back as they were.
JSONstringify(events) ==
  [i \in 1..Len(events) |-> [events[i] EXCEPT !.id = IF @ = NaN THEN Null ELSE @]]

\* recordWebhook after the await (storage.ts 126-127): the event is pushed and
\* the write of persistWebhooks() is issued with the log as it is now.
recordWebhook(p) ==
  /\ procs[p].pc = "recordWebhook"
  /\ ensureInitializedDone
  /\ initialized' = TRUE
  /\ webhookEvents' = Append(webhookEvents, procs[p].event)
  /\ procs' = [procs EXCEPT ![p].pc = "persistWebhooks",
                             ![p].log = JSONstringify(webhookEvents')]
  /\ UNCHANGED <<initPromise, initStep, sessions, states, fileVars, now, histVars>>

\* The write of product_webhooks.json completed: the route answers 200.
recordWebhookWritten(p) ==
  /\ procs[p].pc = "persistWebhooks"
  /\ webhookFile' = [exists |-> TRUE, data |-> procs[p].log]
  /\ procs' = [procs EXCEPT ![p] = IdleProc]
  /\ replies' = replies \cup {Reply("webhook", 200, "ok")}
  /\ UNCHANGED <<initVars, storeVars, sessionFile, stateFile, now, hookVars, restarts,
                 nextNonce, issued, callVars, exchanged, subscribed>>

\* fs.writeFile rejected: recordWebhook throws, the route's catch answers 500.
recordWebhookFailed(p) ==
  /\ procs[p].pc = "persistWebhooks"
  /\ procs' = [procs EXCEPT ![p] = IdleProc]
  /\ replies' = replies \cup {Caught("webhook")}
  /\ UNCHANGED <<initVars, storeVars, fileVars, now, hookVars, restarts, nextNonce,
                 issued, callVars, exchanged, subscribed>>

\* [...webhookEvents].sort((a, b) => b.receivedAt - a.receivedAt): a stable
\* sort, newest first.
InsertByReceivedAt(e, sorted) ==
  LET k == Cardinality({i \in 1..Len(sorted) : sorted[i].receivedAt >= e.receivedAt}) IN
  SubSeq(sorted, 1, k) \o <<e>> \o SubSeq(sorted, k + 1, Len(sorted))

\* faulty variant: the log is returned in the order it is stored
SortByReceivedAt_Unsorted(events) == events

RECURSIVE SortByReceivedAt(_)
SortByReceivedAt(events) ==
  IF events = <<>> THEN <<>>
  ELSE InsertByReceivedAt(events[Len(events)],
                          SortByReceivedAt(SubSeq(events, 1, Len(events) - 1)))

\* GET /webhooks/products: listWebhooks() up to await ensureInitialized().
listWebhooksCall(p) ==
  /\ Free(p)
  /\ procs' = [procs EXCEPT ![p] = [IdleProc EXCEPT !.kind = "list", !.pc = "listWebhooks"]]
  /\ ensureInitializedCall
  /\ UNCHANGED <<storeVars, fileVars, now, histVars>>

\* listWebhooks after the await: the sorted copy is returned.
listWebhooks(p) ==
  /\ procs[p].pc = "listWebhooks"
  /\ ensureInitializedDone
  /\ initialized' = TRUE
  /\ listed' = SortByReceivedAt(webhookEvents)
  /\ procs' = [procs EXCEPT ![p] = IdleProc]
  /\ UNCHANGED <<initPromise, initStep, storeVars, fileVars, now, restarts, nextNonce,
                 issued, callVars, routeVars, delivery, signedBodies, posts, signedPosts, call,
                 durVars>>

\* ------------------------------------------------------------------ clock
Tick ==
  /\ now < LastInstant
  /\ now' = now + TickStep(now)
  /\ UNCHANGED <<initVars, storeVars, fileVars, procs, histVars>>

\* ---------------------------------------------- fetchProductsPage, /products
\* pageInfo is undefined
NoPageInfo == 0
\* the products of one page, by id
PageContents == {<<1, 2>>, <<3>>, <<>>}
\* the finite chains of pages an upstream serves
Chains == UNION {[1..n -> PageContents] : n \in 1..MaxPages}

\* options.limit ?? 100 and the range of Math.min(Math.max(.., 1), 250)
DefaultLimit == 100
MinLimit == 1
MaxLimit == 250

\* The limit parameter of GET /products as the query string gives it; the
\* empty string stands for a parameter that is absent (req.query.limit ?? '').
LimitParams == {"", "0", "-5", "10", "300", "abc"}
\* Number(string): the empty string is 0, a non-numeric string is NaN
Number(string) ==
  CASE string = "" -> 0
    [] string = "0" -> 0
    [] string = "-5" -> 0 - 5
    [] string = "10" -> 10
    [] string = "300" -> 300
    [] OTHER -> NaN

\* Math.max and Math.min return NaN when an argument is NaN
MathMax(a, b) == IF a = NaN \/ b = NaN THEN NaN ELSE IF a >= b THEN a ELSE b
MathMin(a, b) == IF a = NaN \/ b = NaN THEN NaN ELSE IF a <= b THEN a ELSE b
\* Math.min(Math.max(options.limit ?? 100, 1), 250)
clampLimit(limit) == MathMin(MathMax(limit, MinLimit), MaxLimit)

\* The link header of page i of a chain as Shopify writes it: the entry for
\* rel="previous" first, then the entry for rel="next", each with the
\* page_info of its url; the sequence is empty when there is no header.
LinkEntry(rel, pageInfo) == [rel |-> rel, pageInfo |-> pageInfo]
LinkHeader(chain, i) ==
  (IF i > 1 THEN <<LinkEntry("previous", i - 1)>> ELSE <<>>)
    \o (IF i < Len(chain) THEN <<LinkEntry("next", i + 1)>> ELSE <<>>)

\* faulty variant: the first entry of the header is followed, whatever its rel
parseNextPageInfo_First(linkHeader) ==
  IF linkHeader = <<>> THEN NoPageInfo ELSE linkHeader[1].pageInfo
\* parseNextPageInfo(linkHeader): undefined without a header or without an
\* entry that matches /<([^>]+)>; rel="next"/, else the page_info of the
\* first entry that matches.
parseNextPageInfo(linkHeader) ==
  LET next == {i \in 1..Len(linkHeader) : linkHeader[i].rel = "next"} IN
  IF next = {} THEN NoPageInfo
  ELSE linkHeader[CHOOSE i \in next : \A j \in next : i <= j].pageInfo

ProductPage(products, nextPageInfo) ==
  [products |-> products, nextPageInfo |-> nextPageInfo]

\* What fetchProductsPage returns for the response to a request with the
\* cursor pageInfo: the products of the body and the cursor of the header.
PageOf(chain, pageInfo) ==
  LET i == IF pageInfo = NoPageInfo THEN 1 ELSE pageInfo IN
  ProductPage(chain[i], parseNextPageInfo(LinkHeader(chain, i)))

\* the cursor a caller that follows nextPageInfo passes next
NextCursor(pages) ==
  IF pages = <<>> THEN NoPageInfo ELSE pages[Len(pages)].nextPageInfo

\* The merchant's catalog as the upstream pages it.
stock(chain) ==
  /\ catalog = <<>>
  /\ catalog' = chain
  /\ UNCHANGED <<initVars, storeVars, fileVars, procs, now, restarts, nextNonce, issued,
                 callVars, routeVars, delivery, signedBodies, posts, signedPosts, listed,
                 call, completed, loaded, atRestart, walk, fetched, request,
                 registration, pureVars>>

\* fetchProducts(shop) (shopify.ts 185-190): the first fetchProductsPage call,
\* without pageInfo and without limit, up to the await in getSession().
fetchProducts(p, shop) ==
  /\ Free(p)
  /\ catalog # <<>>
  /\ procs' = [procs EXCEPT ![p] = [IdleProc EXCEPT !.kind = "fetchProducts",
                                      !.pc = "getSession", !.shop = shop,
                                      !.pageInfo = NoPageInfo,
                                      !.limit = clampLimit(DefaultLimit)]]
  /\ ensureInitializedCall
  /\ UNCHANGED <<storeVars, fileVars, now, histVars>>

\* fetchProductsPage(shop, {pageInfo}) called by itself, up to the await in
\* getSession().
fetchProductsPage(p, shop, pageInfo) ==
  /\ Free(p)
  /\ catalog # <<>>
  /\ procs' = [procs EXCEPT ![p] = [IdleProc EXCEPT !.kind = "fetchProductsPage",
                                      !.pc = "getSession", !.shop = shop,
                                      !.pageInfo = pageInfo,
                                      !.limit = clampLimit(DefaultLimit)]]
  /\ ensureInitializedCall
  /\ UNCHANGED <<storeVars, fileVars, now, histVars>>

\* GET /products (server.ts 189-216) up to its first await: limit is
\* Number(req.query.limit ?? ''); a missing shop and a rejected shop domain
\* answer 400; otherwise getSession() runs up to its await.
products(p, shop, pageInfo, limit) ==
  /\ Free(p)
  /\ catalog # <<>>
  /\ IF shop = Missing
     THEN /\ replies' = replies \cup {Reply("products", 400, "missing")}
          /\ UNCHANGED <<procs, initVars>>
     ELSE IF sanitizeShopDomainThrows(shop)
     THEN /\ replies' = replies \cup {Reply("products", 400, "shop")}
          /\ UNCHANGED <<procs, initVars>>
     ELSE /\ procs' = [procs EXCEPT ![p] = [IdleProc EXCEPT !.kind = "products",
                                             !.pc = "routeSession", !.shop = shop,
                                             !.pageInfo = pageInfo,
                                             !.limit = clampLimit(Number(limit))]]
          /\ ensureInitializedCall
          /\ UNCHANGED replies
  /\ UNCHANGED <<storeVars, fileVars, now, hookVars, restarts, nextNonce, issued, callVars,
                 exchanged, subscribed>>

\* getSession() returned to the route: without a session it answers 401,
\* with one it calls fetchProductsPage, which runs up to its await.
routeSession(p) ==
  /\ procs[p].pc = "routeSession"
  /\ ensureInitializedDone
  /\ initialized' = TRUE
  /\ IF SessionsGet(sessions, procs[p].shop) = {}
     THEN /\ replies' = replies \cup {Reply("products", 401, "no session")}
          /\ procs' = [procs EXCEPT ![p] = IdleProc]
     ELSE /\ procs' = [procs EXCEPT ![p].pc = "getSession"]
          /\ UNCHANGED replies
  /\ UNCHANGED <<initPromise, initStep, storeVars, fileVars, now, hookVars, restarts,
                 nextNonce, issued, callVars, exchanged, subscribed>>

\* fetchProductsPage threw: fetchProducts throws with it, the route's catch
\* answers 500.
pageThrows(p) ==
  /\ procs' = [procs EXCEPT ![p] = IdleProc]
  /\ fetched' = IF procs[p].kind = "fetchProducts"
                 THEN [outcome |-> "throw", products |-> <<>>] ELSE fetched
  /\ replies' = IF procs[p].kind = "products" THEN replies \cup {Caught("products")}
                 ELSE replies
  /\ UNCHANGED walk

\* fetchProductsPage after getSession() (shopify.ts 148-165): without a
\* session it throws; with one the limit is clamped, page_info is set when
\* pageInfo is truthy, and the request is sent.
getSession(p) ==
  /\ procs[p].pc = "getSession"
  /\ ensureInitializedDone
  /\ initialized' = TRUE
  /\ IF SessionsGet(sessions, procs[p].shop) = {}
     THEN /\ pageThrows(p)
          /\ UNCHANGED request
     ELSE /\ procs' = [procs EXCEPT ![p].pc = "fetchPage", ![p].attempt = 0,
                                    ![p].retryOnThrottle = TRUE]
          /\ request' = [sent |-> TRUE, limit |-> procs[p].limit,
                         pageInfo |-> procs[p].pageInfo]
          /\ UNCHANGED <<walk, fetched, replies>>
  /\ UNCHANGED <<initPromise, initStep, storeVars, fileVars, now, restarts, nextNonce,
                 issued, callVars, exchanged, subscribed, delivery, signedBodies, posts,
                 signedPosts, listed, call, completed, loaded, atRestart, catalog,
                 registration, pureVars>>

\* The answer to the products request (shopify.ts 160-182, 189-193): a
\* response that is returned gives the page; fetchProducts appends its
\* products and, while nextPageInfo is truthy, calls fetchProductsPage with
\* it; a response that is retried waits; a thrown one ends the call.
pageResponse(p, status) ==
  /\ procs[p].pc = "fetchPage"
  /\ LET outcome == shopifyRequestOutcome(status, procs[p].retryOnThrottle,
                                          procs[p].attempt)
         page == PageOf(catalog, procs[p].pageInfo)
         aggregated == procs[p].aggregated \o page.products IN
     CASE outcome = "retry" ->
            /\ procs' = [procs EXCEPT ![p].pc = "delayPage"]
            /\ UNCHANGED <<walk, fetched, replies>>
       [] outcome = "throw" -> pageThrows(p)
       [] outcome = "return" /\ procs[p].kind = "fetchProducts" ->
            /\ IF page.nextPageInfo # NoPageInfo
               THEN /\ procs' = [procs EXCEPT ![p].pc = "getSession",
                                              ![p].pageInfo = page.nextPageInfo,
                                              ![p].aggregated = aggregated]
                    /\ UNCHANGED fetched
               ELSE /\ procs' = [procs EXCEPT ![p] = IdleProc]
                    /\ fetched' = [outcome |-> "return", products |-> aggregated]
            /\ UNCHANGED <<walk, replies>>
       [] outcome = "return" /\ procs[p].kind = "fetchProductsPage" ->
            /\ procs' = [procs EXCEPT ![p] = IdleProc]
            /\ walk' = IF procs[p].pageInfo = NoPageInfo THEN <<page>>
                        ELSE Append(walk, page)
            /\ UNCHANGED <<fetched, replies>>
       [] outcome = "return" /\ procs[p].kind = "products" ->
            /\ procs' = [procs EXCEPT ![p] = IdleProc]
            /\ replies' = replies \cup {Reply("products", 200, "page")}
            /\ UNCHANGED <<walk, fetched>>
  /\ UNCHANGED <<initVars, storeVars, fileVars, now, restarts, nextNonce, issued, callVars,
                 exchanged, subscribed, delivery, signedBodies, posts, signedPosts, listed,
                 call, completed, loaded, atRestart, catalog, request, registration,
                 pureVars>>

\* ------------------------------------------------------- sanitizeShopDomain
\* A shop parameter is a sequence of characters: white space, a letter or
\* digit, the hyphen, the dot, and the text myshopify.com, which stands for
\* its thirteen characters.
Chars == {" ", "a", "-", ".", "myshopify.com"}
ShopParams == UNION {[1..n -> Chars] : n \in 0..MaxLen}

\* shopDomain.trim(): white space at both ends is removed
trim(string) ==
  LET kept == {i \in 1..Len(string) : string[i] # " "} IN
  IF kept = {} THEN <<>>
  ELSE SubSeq(string, CHOOSE i \in kept : \A j \in kept : i <= j,
                      CHOOSE i \in kept : \A j \in kept : i >= j)

\* faulty variant: the pattern without the $ anchor
match_Unanchored(string) ==
  \E n \in 3..Len(string) :
    /\ string[1] = "a"
    /\ \A i \in 2..(n - 2) : string[i] \in {"a", "-"}
    /\ string[n - 1] = "."
    /\ string[n] = "myshopify.com"
\* trimmed.match(/^[a-zA-Z0-9][a-zA-Z0-9-]*\.myshopify\.com$/)
match(string) ==
  /\ Len(string) >= 3
  /\ string[1] = "a"
  /\ \A i \in 2..(Len(string) - 2) : string[i] \in {"a", "-"}
  /\ string[Len(string) - 1] = "."
  /\ string[Len(string)] = "myshopify.com"

\* sanitizeShopDomain(shopDomain) (shopify.ts 46-53)
sanitizeShopDomain(shopDomain) ==
  LET trimmed == trim(shopDomain) IN
  IF ~match(trimmed) THEN Throw ELSE Return(trimmed)

\* A call of sanitizeShopDomain, and a second call with what it returned
\* (the function has no state: one call per behaviour shows them all).
sanitizeShopDomainCall(shopDomain) ==
  /\ ~sanitized.called
  /\ sanitized' = [called |-> TRUE, input |-> shopDomain,
                   result |-> sanitizeShopDomain(shopDomain),
                   again |-> IF sanitizeShopDomain(shopDomain) = Throw THEN Throw
                             ELSE sanitizeShopDomain(sanitizeShopDomain(shopDomain).value)]
  /\ UNCHANGED <<initVars, storeVars, fileVars, procs, now, restarts, nextNonce, issued,
                 callVars, routeVars, delivery, signedBodies, posts, signedPosts, listed,
                 call, completed, loaded, atRestart, pageVars, registration, verified>>

\* ------------------------------------------------------- verifyCallbackHmac
\* The text of a parameter value is a sequence of characters, of which the
\* comma is one; a value is a string, or an array of strings when the
\* parameter is repeated in the query string.
Texts == {<<"x">>, <<"x", ",", "x">>}
String(text) == [array |-> FALSE, items |-> <<text>>]
Array(items) == [array |-> TRUE, items |-> items]
Values == {String(text) : text \in Texts} \cup {Array(<<<<"x">>, <<"x">>>>)}

\* value.join(',')
RECURSIVE join(_)
join(items) ==
  IF Len(items) = 0 THEN <<>>
  ELSE IF Len(items) = 1 THEN items[1]
  ELSE join(SubSeq(items, 1, Len(items) - 1)) \o <<",">> \o items[Len(items)]

\* Array.isArray(value) ? value.join(',') : value
queryParam(value) == IF value.array THEN join(value.items) ELSE value.items[1]

\* The parameters Shopify signs, and the order of all keys under sort().
SignedKeys == {"code", "shop", "state"}
KeyOrder == <<"code", "hmac", "shop", "signature", "state">>
Rank(key) == CHOOSE i \in 1..Len(KeyOrder) : KeyOrder[i] = key

\* Object.keys(queryParams).sort(): the entries by ascending key
sortKeys(entries) ==
  [i \in 1..Len(entries) |->
     CHOOSE e \in {entries[j] : j \in 1..Len(entries)} :
       Cardinality({j \in 1..Len(entries) : Rank(entries[j].key) < Rank(e.key)}) = i - 1]

\* the entries of the query but signature (and hmac, which the query record
\* holds by itself), each value joined
queryParams(entries) ==
  LET kept == SelectSeq(entries, LAMBDA e : e.key # "signature") IN
  [i \in 1..Len(kept) |-> [key |-> kept[i].key, text |-> queryParam(kept[i].value)]]

\* sortedParams.toString(): key=value pairs joined by &, keys and values
\* percent-encoded, so the string identifies the sequence of pairs
CanonicalMessage(entries) == sortKeys(queryParams(entries))

\* verifyCallbackHmac(query) on a query as it arrives: the parameters other
\* than hmac in the order of arrival, and the hmac parameter.
verifyCallbackHmacQuery(query) ==
  Hmac(apiSecret, CanonicalMessage(query.entries)) = query.hmac

\* the orders in which the keys can arrive
Orders(keys) ==
  {f \in [1..Cardinality(keys) -> keys] : \A i, j \in 1..Cardinality(keys) :
                                             f[i] = f[j] => i = j}
\* the query with the values in the given order
Entries(values, order) ==
  [i \in 1..Len(order) |-> [key |-> order[i], value |-> values[order[i]]]]

\* A call of verifyCallbackHmac: Shopify signed the strings of signed under
\* the secret, and the query arrives with the values, in any order, with or
\* without a signature parameter (one call per behaviour).
verifyCallbackHmacCall(signed, values, order) ==
  /\ ~verified.called
  /\ verified' =
       [called |-> TRUE, signed |-> signed, entries |-> Entries(values, order),
        result |-> verifyCallbackHmacQuery(
                     [entries |-> Entries(values, order),
                      hmac |-> Hmac(apiSecret,
                                    CanonicalMessage(Entries(signed,
                                       <<"code", "shop", "state">>)))])]
  /\ UNCHANGED <<initVars, storeVars, fileVars, procs, now, restarts, nextNonce, issued,
                 callVars, routeVars, delivery, signedBodies, posts, signedPosts, listed,
                 call, completed, loaded, atRestart, pageVars, registration, sanitized>>

\* ---------------------------------------------------------------- restart
\* The process is stopped while no request is in flight and started again:
\* the module state of storage.ts is as declared (lines 30-35), the files
\* are as the completed writes left them.
Restart ==
  /\ restarts < MaxRestarts
  /\ \A p \in Procs : procs[p].pc = "idle"
  /\ initPromise # "pending"
  /\ restarts' = restarts + 1
  /\ initialized' = FALSE
  /\ initPromise' = "null"
  /\ initStep' = "idle"
  /\ sessions' = {}
  /\ states' = {}
  /\ webhookEvents' = <<>>
  /\ atRestart' = Store(sessions, states, webhookEvents)
  /\ UNCHANGED <<fileVars, procs, now, nextNonce, issued, callVars, routeVars, delivery,
                 signedBodies, posts, signedPosts, listed, call, completed, loaded,
                 pageVars, registration, pureVars>>

\* ---------------------------------------------------------- specification
\* One run of the process and one handshake in it: the handshake is begun and
\* state parameters are validated, concurrently, while the clock advances.
\* (The entries of the states map are independent of each other in memory:
\* no operation on one nonce reads or writes the entry of another.)
FirstHandshake == nextNonce = 1

Next ==
  \/ initialize
  \/ restoreSessions
  \/ restoreStates
  \/ restoreWebhooks
  \/ \E p \in Procs, shop \in Shops : FirstHandshake /\ buildAuthUrl(p, shop)
  \/ \E p \in Procs : saveState(p)
  \/ \E p \in Procs : saveStateWritten(p)
  \/ \E p \in Procs : saveStateFailed(p)
  \/ \E p \in Procs, n \in StateParams, shop \in Shops : validateState(p, n, shop)
  \/ \E p \in Procs : consumeState(p)
  \/ \E p \in Procs : consumeStateWritten(p)
  \/ \E p \in Procs : consumeStateFailed(p)
  \/ Tick

Spec == Init /\ [][Next]_vars

\* Runs of the process with restarts between them: handshakes for one
\* storefront are begun and completed concurrently, and the writes of
\* states.json complete in any order.
NextRestart ==
  \/ initialize
  \/ restoreSessions
  \/ restoreStates
  \/ restoreWebhooks
  \/ \E p \in Procs : buildAuthUrl(p, ShopA)
  \/ \E p \in Procs : saveState(p)
  \/ \E p \in Procs : saveStateWritten(p)
  \/ \E p \in Procs : saveStateFailed(p)
  \/ \E p \in Procs, n \in Keys(issued) : validateState(p, n, ShopA)
  \/ \E p \in Procs : consumeState(p)
  \/ \E p \in Procs : consumeStateWritten(p)
  \/ \E p \in Procs : consumeStateFailed(p)
  \/ Restart

SpecRestart == Init /\ [][NextRestart]_vars

\* One handshake and the callbacks that complete it: callbacks arrive
\* concurrently with any shop, state and hmac parameter, and the upstream
\* answers each request with any status.
HmacParams(shop, code, n) ==
  { Hmac(apiSecret, <<code, shop, n>>),         \* signed by Shopify for this query
    Hmac(apiSecret, <<code, ShopB, n>>),        \* signed by Shopify for shop-b
    Hmac("guess", <<code, shop, n>>),           \* signed without the secret
    NoHmac }                                    \* no hmac parameter

NextCallback ==
  \/ initialize
  \/ restoreSessions
  \/ restoreStates
  \/ restoreWebhooks
  \/ \E p \in Procs : FirstHandshake /\ buildAuthUrl(p, ShopA)
  \/ \E p \in Procs : saveState(p)
  \/ \E p \in Procs : saveStateWritten(p)
  \/ \E p \in Procs : saveStateFailed(p)
  \/ \E p \in Procs, shop \in Shops \cup {BadShop, Missing}, n \in StateParams :
       \E hmac \in HmacParams(shop, "code", n) : callback(p, shop, "code", n, hmac)
  \/ \E p \in Procs : consumeState(p)
  \/ \E p \in Procs : callbackValidated(p)
  \/ \E p \in Procs : callbackStateFailed(p)
  \/ \E p \in Procs, status \in Statuses : tokenResponse(p, status)
  \/ \E p \in Procs : saveSession(p)
  \/ \E p \in Procs : saveSessionWritten(p)
  \/ \E p \in Procs : saveSessionFailed(p)
  \/ \E p \in Procs, status \in Statuses : webhookResponse(p, status)
  \/ \E p \in Procs : delayElapsed(p)

SpecCallback == Init /\ [][NextCallback]_vars

\* Webhook deliveries: any body arrives with the signature of this body, the
\* signature of another body (the body was tampered with), a signature made
\* without the secret, the signature in hex (64 characters), or no header.
HeaderParams(body) ==
  { Base64Digest(apiSecret, body),
    Base64Digest(apiSecret, "{\"id\":1}"),
    Base64Digest("guess", body),
    Header(Hmac(apiSecret, body), "hex", DigestLength + 20),
    NoHeader }

NextWebhook ==
  \/ initialize
  \/ restoreSessions
  \/ restoreStates
  \/ restoreWebhooks
  \/ \E p \in Procs, body \in Bodies : \E header \in HeaderParams(body) :
       webhookPost(p, body, header, "products/update", ShopA)
  \/ \E p \in Procs : recordWebhook(p)
  \/ \E p \in Procs : recordWebhookWritten(p)
  \/ \E p \in Procs : recordWebhookFailed(p)
  \/ \E p \in Procs : listWebhooksCall(p)
  \/ \E p \in Procs : listWebhooks(p)

SpecWebhook == Init /\ [][NextWebhook]_vars

\* Calls of shopifyRequest, one after the other (a call reads and writes no
\* state of the module, so calls do not affect each other): with and without
\* retries, the upstream answering each request with any status.
NextClient ==
  \/ \E retryOnThrottle \in BOOLEAN : shopifyRequest(1, retryOnThrottle)
  \/ \E p \in Procs, status \in AllStatuses : requestResponse(p, status, NoLimitHeader, 0)
  \/ \E p \in Procs : delayElapsed(p)

SpecClient == Init /\ [][NextClient]_vars

\* The session store used by one caller at a time, over restarts: sessions
\* are saved for two storefronts with two tokens, writes complete or are
\* rejected, and sessions are loaded.
Tokens == {"shpat_1", "shpat_2"}

NextVault ==
  \/ initialize
  \/ restoreSessions
  \/ restoreStates
  \/ restoreWebhooks
  \/ \E shop \in Shops, token \in Tokens : saveSessionCall(1, shop, token)
  \/ saveSession(1)
  \/ sessionWritten(1)
  \/ sessionFailed(1)
  \/ \E shop \in Shops : loadSessionCall(1, shop)
  \/ loadSession(1)
  \/ Restart

SpecVault == Init /\ [][NextVault]_vars

\* The three collections used by one caller at a time, every write
\* completing, over restarts: sessions are saved, a handshake is begun and
\* its nonce consumed, signed webhooks are recorded.
NextDurable ==
  \/ initialize
  \/ restoreSessions
  \/ restoreStates
  \/ restoreWebhooks
  \/ \E token \in Tokens : saveSessionCall(1, ShopA, token)
  \/ saveSession(1)
  \/ sessionWritten(1)
  \/ FirstHandshake /\ buildAuthUrl(1, ShopA)
  \/ saveState(1)
  \/ saveStateWritten(1)
  \/ \E n \in Keys(issued) : validateState(1, n, ShopA)
  \/ consumeState(1)
  \/ consumeStateWritten(1)
  \/ \E body \in BodiesAnyId :
       webhookPost(1, body, Base64Digest(apiSecret, body), "products/update", ShopA)
  \/ recordWebhook(1)
  \/ recordWebhookWritten(1)
  \/ Restart

SpecDurable == Init /\ [][NextDurable]_vars

\* The callers of shopifyRequest one after the other: direct calls with and
\* without retries, and a handshake whose callback runs exchangeToken and
\* registerProductWebhooks; the upstream answers with any status.
NextRetry ==
  \/ initialize
  \/ restoreSessions
  \/ restoreStates
  \/ restoreWebhooks
  \/ FirstHandshake /\ buildAuthUrl(1, ShopA)
  \/ saveState(1)
  \/ saveStateWritten(1)
  \/ \E n \in Keys(issued) :
       callback(1, ShopA, "code", n, Hmac(apiSecret, <<"code", ShopA, n>>))
  \/ consumeState(1)
  \/ callbackValidated(1)
  \/ \E status \in AllStatuses : tokenResponse(1, status)
  \/ saveSession(1)
  \/ saveSessionWritten(1)
  \/ \E status \in Statuses : webhookResponse(1, status)
  \/ \E retryOnThrottle \in BOOLEAN : shopifyRequest(1, retryOnThrottle)
  \/ \E status \in AllStatuses : requestResponse(1, status, NoLimitHeader, 0)
  \/ delayElapsed(1)

SpecRetry == Init /\ [][NextRetry]_vars

\* Calls of shopifyRequest and the delays they wait: the upstream answers
\* with success, a client error or 429, with any rate-limit header, and
\* Math.random() gives any jitter.
Jitters == {0, 50, 99}
LimitHeaders ==
  { NoLimitHeader,
    LimitHeader(TRUE, FALSE, 0, 40),     \* "abc/40"
    LimitHeader(TRUE, TRUE, 40, 0),      \* "40/0"
    LimitHeader(TRUE, TRUE, 10, 40),     \* "10/40": 0.25
    LimitHeader(TRUE, TRUE, 32, 40),     \* "32/40": 0.8
    LimitHeader(TRUE, TRUE, 40, 40) }    \* "40/40": 1.0

NextBackoff ==
  \/ \E retryOnThrottle \in BOOLEAN : shopifyRequest(1, retryOnThrottle)
  \/ \E p \in Procs, status \in {200, 404, 429}, header \in LimitHeaders,
        jitter \in Jitters : requestResponse(p, status, header, jitter)
  \/ \E p \in Procs : delayElapsed(p)

SpecBackoff == Init /\ [][NextBackoff]_vars

\* ------------------------------------------------------------------ claims
BoundShop(n) == (CHOOSE e \in issued : e.nonce = n).shopDomain
Returned(c) == c.status \in {"true", "false"}

\* C1: each issued nonce makes validateState return true at most once: its
\* first validateState, given the bound storefront within the TTL, returns
\* true, and every later validateState of that nonce returns false.
C1_AtMostOnce ==
  \A n \in Keys(issued) :
    /\ accepts[n] <= 1
    /\ \A c \in tried[n] :
         /\ (c.first /\ Returned(c) /\ c.shop = BoundShop(n) /\ c.stored
                /\ c.age <= stateTtlMs) => c.status = "true"
         /\ c.first /\ Returned(c) => c.stored
         /\ ~c.first => c.status = "false"

\* a nonce was accepted on its first use and rejected on a later one
C1_Witness ==
  \E n \in Keys(issued) :
    /\ accepts[n] = 1
    /\ \E c, d \in tried[n] : /\ c.first /\ c.status = "true"
                               /\ ~d.first /\ d.shop = BoundShop(n) /\ d.status = "false"
    /\ now <= stateTtlMs

\* C2: validateState removes the nonce it looked up whatever the outcome: once
\* a call on a stored nonce has failed (wrong storefront or expired), the nonce
\* is not stored any more and no validateState of it returns true.
C2_DeletedOnFailure ==
  \A n \in Keys(issued) :
    \A c \in tried[n] :
      (c.stored /\ c.status = "false") => (n \notin Keys(states) /\ accepts[n] = 0)

\* a call on a stored nonce failed because the nonce had expired, and a later
\* call with the bound storefront has ended
C2_Witness ==
  \E n \in Keys(issued) :
    \E c, d \in tried[n] :
      /\ c.stored /\ c.status = "false" /\ c.shop = BoundShop(n) /\ c.age > stateTtlMs
      /\ ~d.first /\ d.shop = BoundShop(n)

\* C3 as claimed: after a validateState with another storefront was rejected,
\* a validateState with the bound storefront within the TTL is accepted.
C3_AcceptedAfterWrongShop ==
  \A n \in Keys(issued) :
    ( /\ \E c \in tried[n] : c.first /\ c.shop # BoundShop(n) /\ c.status = "false"
      /\ \E d \in tried[n] : ~d.first /\ d.shop = BoundShop(n)
      /\ now - (CHOOSE e \in issued : e.nonce = n).createdAt <= stateTtlMs )
    => \E d \in tried[n] : d.shop = BoundShop(n) /\ d.status = "true"

\* C3 as amended: for a nonce issued for shop-a, a validateState with shop-b is
\* rejected, and so is every validateState of that nonce that follows it, the
\* one with shop-a within the TTL included.
C3_RejectedAfterWrongShop ==
  \A n \in Keys(issued) :
    \A c \in tried[n] :
      (c.first /\ c.shop # BoundShop(n) /\ Returned(c)) =>
        /\ c.status = "false"
        /\ \A d \in tried[n] : d.status # "true"

\* shop-b was rejected first, then shop-a was rejected within the TTL
C3_Witness ==
  \E n \in Keys(issued) :
    /\ BoundShop(n) = ShopA
    /\ \E c, d \in tried[n] :
         /\ c.first /\ c.stored /\ c.shop = ShopB /\ c.status = "false"
         /\ ~d.first /\ d.shop = ShopA /\ d.status = "false"
    /\ now - (CHOOSE e \in issued : e.nonce = n).createdAt <= stateTtlMs

\* C4: validateState on a stored nonce with the matching storefront returns
\* true exactly when now - createdAt <= stateTtlMs.
C4_TtlBoundary ==
  \A n \in Keys(issued) :
    \A c \in tried[n] :
      (c.stored /\ Returned(c) /\ c.shop = BoundShop(n)) =>
        (c.status = "true" <=> c.age <= stateTtlMs)

\* one nonce was accepted at an age of exactly the TTL
C4_Witness ==
  \E n \in Keys(issued) :
    \E c \in tried[n] : c.stored /\ c.shop = BoundShop(n) /\ c.age = stateTtlMs
                          /\ c.status = "true"

\* a nonce one millisecond older than the TTL was rejected on its first use
C4_WitnessExpired ==
  \E n \in Keys(issued) :
    \E c \in tried[n] : c.first /\ c.stored /\ c.shop = BoundShop(n)
                          /\ c.age = stateTtlMs + 1 /\ c.status = "false"

\* C5: single consumption survives a restart: once validateState has returned
\* for a nonce (the write of consumeState has completed), the nonce is never
\* in the states map again, also not after a restart reloaded states.json.
C5_ConsumedStaysConsumed ==
  \A n \in Keys(issued) :
    (\E c \in tried[n] : c.stored /\ Returned(c)) => n \notin Keys(states)

\* ------------------------------------------------- claims on /auth/callback
InCallback(p) == procs[p].kind = "callback" /\ procs[p].pc # "idle"

\* the awaits of exchangeToken and registerProductWebhooks
PastChecks == {"fetchToken", "delayToken", "saveSession", "persistSessions",
               "fetchWebhook", "delayWebhook"}
PastSession == {"fetchWebhook", "delayWebhook"}

SignedByShopify(p) ==
  /\ procs[p].hmac.key = apiSecret
  /\ procs[p].hmac.message = <<procs[p].code, procs[p].shop, procs[p].nonce>>

\* C6: callback replay is prevented: whatever the interleaving of concurrent
\* /auth/callback requests carrying the same state value, at most one of them
\* reaches exchangeToken, so at most one token-exchange request is sent
\* upstream per issued nonce.
C6_OneExchangePerNonce ==
  \A n \in Nonces :
    /\ exchanged[n] <= 1
    /\ Cardinality({p \in Procs : InCallback(p) /\ procs[p].nonce = n
                                    /\ procs[p].pc \in PastChecks}) <= 1

\* Two callbacks with the same parameters, all of them good, are in flight:
\* one has sent the token-exchange request, the other is about to look the
\* nonce up.
C6_Witness ==
  \E p, q \in Procs :
    /\ p # q
    /\ InCallback(p) /\ procs[p].pc = "fetchToken"
    /\ InCallback(q) /\ procs[q].pc = "consumeState"
    /\ procs[q].nonce = procs[p].nonce
    /\ procs[q].shop = procs[p].shop
    /\ SignedByShopify(q)

\* C7: the callback route runs validate domain, consume nonce, verify HMAC,
\* exchange code, persist session, register subscriptions in this order and
\* each step only after the earlier ones succeeded: the nonce is looked up
\* only for an accepted domain, the HMAC is checked only after validateState
\* returned true, a token-exchange request is sent and a session stored only
\* for a callback whose domain, nonce and HMAC checks passed, and
\* subscriptions are requested only once sessions.json holds the session.
C7_StepsInOrder ==
  /\ \A p \in Procs : InCallback(p) =>
        /\ ~sanitizeShopDomainThrows(procs[p].shop)
        /\ procs[p].pc \in PastChecks =>
              /\ accepts[procs[p].nonce] >= 1
              /\ BoundShop(procs[p].nonce) = procs[p].shop
              /\ SignedByShopify(p)
        /\ procs[p].pc \in PastSession =>
              \E x \in sessionFile.data : x.shopDomain = procs[p].shop
  /\ \A n \in Nonces : exchanged[n] >= 1 => accepts[n] >= 1
  /\ Reply("callback", 400, "hmac") \in replies => \E n \in Nonces : accepts[n] >= 1
  /\ \A x \in sessions :
        \E n \in Keys(issued) : accepts[n] >= 1 /\ BoundShop(n) = x.shopDomain
  /\ \A x \in subscribed : \E y \in sessionFile.data : y.shopDomain = x.shop
  /\ Reply("callback", 200, "success") \in replies =>
        \A i \in 1..Len(Topics) : \E x \in subscribed : x.topic = Topics[i]

\* A callback went through all the steps and answered success, and callbacks
\* with a rejected domain and without a state were answered 400.
C7_Witness ==
  /\ Reply("callback", 200, "success") \in replies
  /\ Reply("callback", 400, "shop") \in replies
  /\ Reply("callback", 400, "state") \in replies

\* A callback whose nonce was accepted failed the HMAC check.
C7_WitnessHmac == Reply("callback", 400, "hmac") \in replies

\* ---------------------------------------------- claims on /webhooks/products
\* every event the process holds: in memory, in the file, in a write that
\* is in flight, about to be pushed, or returned by listWebhooks()
Range(seq) == {seq[i] : i \in 1..Len(seq)}
HeldEvents ==
  Range(webhookEvents) \cup Range(webhookFile.data) \cup Range(listed)
    \cup UNION {Range(procs[p].log) : p \in Procs}
    \cup {procs[p].event : p \in {q \in Procs : procs[q].pc = "recordWebhook"}}

\* the header is Shopify's signature of another body
Tampered(d) ==
  /\ d.header.encoding = "base64"
  /\ d.header.digest.key = apiSecret
  /\ d.header.digest.message # d.body

\* C8: webhook ingestion fails closed: an event is appended to the log only
\* for a delivery whose header is the signature of the raw body; a delivery
\* with a tampered body and the original header is answered 401, records no
\* event, and the length of listWebhooks() does not grow with it.
C8_FailsClosed ==
  /\ delivery.result = "true" => Signed(delivery.body, delivery.header)
  /\ Tampered(delivery) =>
        /\ delivery.result = "false"
        /\ Reply("webhook", 401, "invalid hmac") \in replies
  /\ \A e \in HeldEvents : \E body \in signedBodies : JSONparse(body) = e.payload
  /\ Len(webhookEvents) <= signedPosts
  /\ Len(listed) <= signedPosts

\* The body with the product was delivered signed, recorded and listed; the
\* last delivery carried another body under that header: nothing of it is
\* held and the list has one event.
C8_Witness ==
  /\ Tampered(delivery)
  /\ delivery.header = Base64Digest(apiSecret, "{\"id\":1}")
  /\ signedBodies = {"{\"id\":1}"}
  /\ Len(webhookEvents) = 1
  /\ Len(listed) = 1
  /\ \A p \in Procs : procs[p].pc = "idle"

\* C9: verifyCallbackHmac and verifyWebhookHmac return a boolean for every
\* input and never raise: no delivery, whatever its header, makes
\* verifyWebhookHmac throw.
C9_VerifyNeverRaises == delivery.result # "throw"

\* What the code does: verifyWebhookHmac throws exactly for a header that is
\* present and whose length differs from the digest's.
C9_RaisesOnOtherLength ==
  delivery.result = "throw" <=>
    (delivery.header # NoHeader /\ delivery.header.length # DigestLength)

\* ------------------------------------------------- claims on shopifyRequest
\* every response the call received was a 429 or a 5xx
AlwaysThrottled(seen) == \A i \in 1..Len(seen) : shouldRetry(seen[i])

\* C10 as claimed: a shopifyRequest call with retries enabled whose every
\* request is answered 429 or 5xx sends at most MAX_RETRIES = 3 requests in
\* total before it fails.
C10_AtMostMaxRetriesRequests ==
  (call.outcome # "none" /\ call.retryOnThrottle /\ AlwaysThrottled(call.seen)) =>
    (call.fetches <= MAX_RETRIES /\ Len(call.seen) <= MAX_RETRIES)

\* C10 as the code has it: such a call sends the first request and
\* MAX_RETRIES repetitions, MAX_RETRIES + 1 = 4 requests in total, and then
\* throws; no call sends more, whatever the answers.
C10_AtMostMaxRetriesPlusOne ==
  /\ \A p \in Procs : procs[p].fetches <= MAX_RETRIES + 1
  /\ call.fetches <= MAX_RETRIES + 1
  /\ Len(call.seen) = call.fetches
  /\ (call.outcome # "none" /\ call.retryOnThrottle /\ AlwaysThrottled(call.seen)) =>
       (call.fetches = MAX_RETRIES + 1 /\ call.outcome = "throw")

\* A call with retries whose four requests were all answered 429 has thrown.
C10_Witness ==
  /\ call.outcome = "throw"
  /\ call.retryOnThrottle
  /\ call.seen = <<429, 429, 429, 429>>
  /\ call.fetches = 4

\* the delays of the shopifyRequest calls: of the one that ended last and of
\* those in progress
AllDelays == {call.delays} \cup {procs[p].delays : p \in Procs}

\* C11 as claimed: within one shopifyRequest call the delays waited before
\* successive retries are strictly increasing, for every jitter and every
\* sequence of rate-limit headers on the failed responses.
C11_DelaysIncrease ==
  \A delays \in AllDelays : \A i \in 1..(Len(delays) - 1) :
    delays[i].total < delays[i + 1].total

\* C11 as the code has it: the backoff part BASE_DELAY_MS * 2^attempt + jitter
\* is strictly increasing for every jitter, and the whole delay is strictly
\* increasing from one retry to the next unless the header of the earlier
\* response added more extra delay than the header of the later one.
C11_BackoffIncreases ==
  \A delays \in AllDelays : \A i \in 1..(Len(delays) - 1) :
    /\ delays[i].backoff < delays[i + 1].backoff
    /\ delays[i].extra <= delays[i + 1].extra => delays[i].total < delays[i + 1].total

\* A call waited three times, with the largest jitter first and the smallest
\* last, and the last response carried a full bucket.
C11_Witness ==
  /\ Len(call.delays) = MAX_RETRIES
  /\ call.delays[1].backoff = BASE_DELAY_MS + 99
  /\ call.delays[2].backoff = 2 * BASE_DELAY_MS
  /\ call.delays[3].extra > 0

\* the header gives a utilization used / bucket of at least 0.8
HighUtilization(header) ==
  /\ header.present /\ header.finite /\ header.bucket # 0
  /\ header.used * 10 >= header.bucket * 8

AllWaits == UNION {{delays[i] : i \in 1..Len(delays)} : delays \in AllDelays}

\* C14 as claimed: when the failed response carried a rate-limit header with
\* utilization >= 0.8 the client waits an extra (utilization - 0.8) * 1000 ms
\* on top of the backoff before the retry, and no extra delay otherwise.
C14_ExtraIsProportional ==
  \A d \in AllWaits :
    /\ d.total = d.backoff + d.extra
    /\ HighUtilization(d.header) =>
         (d.extra + 800) * d.header.bucket = 1000 * d.header.used
    /\ ~HighUtilization(d.header) => d.extra = 0

\* C14 as the code has it: the extra delay is
\* BASE_DELAY_MS + (utilization - 0.8) * 1000 ms when utilization >= 0.8, and
\* nothing when it is lower or the header is absent or malformed.
C14_ExtraHasBaseDelay ==
  \A d \in AllWaits :
    /\ d.total = d.backoff + d.extra
    /\ HighUtilization(d.header) =>
         (d.extra - BASE_DELAY_MS + 800) * d.header.bucket = 1000 * d.header.used
    /\ ~HighUtilization(d.header) => d.extra = 0

\* One call waited after a response with a full bucket, after one at 0.8,
\* and after one with a malformed header.
C14_Witness ==
  /\ Len(call.delays) = MAX_RETRIES
  /\ call.delays[1].header = LimitHeader(TRUE, TRUE, 40, 40)
  /\ call.delays[1].extra = BASE_DELAY_MS + 200
  /\ call.delays[2].header = LimitHeader(TRUE, TRUE, 32, 40)
  /\ call.delays[2].extra = BASE_DELAY_MS
  /\ call.delays[3].header = LimitHeader(TRUE, FALSE, 0, 40)
  /\ call.delays[3].extra = 0

\* response.ok
Is2xx(status) == status >= 200 /\ status <= 299

\* C12: a 2xx response on any attempt ends the shopifyRequest call at once:
\* the call returns exactly when its last response is a 2xx, no request
\* follows a 2xx response, and a 200 on the second attempt means two requests
\* in total.
C12_SuccessEndsCall ==
  /\ call.outcome # "none" =>
       /\ call.outcome = "return" <=> Is2xx(call.seen[Len(call.seen)])
       /\ \A i \in 1..(Len(call.seen) - 1) : ~Is2xx(call.seen[i])
       /\ call.fetches = Len(call.seen)
  /\ \A p \in Procs : \A i \in 1..Len(procs[p].seen) : ~Is2xx(procs[p].seen[i])
  /\ (Len(call.seen) >= 2 /\ call.seen[2] = 200) =>
       (call.fetches = 2 /\ call.outcome = "return")

\* A call was answered 429 and then 200 and returned after two requests.
C12_Witness ==
  /\ call.seen = <<429, 200>>
  /\ call.fetches = 2
  /\ call.outcome = "return"

\* A call returned a 204 on its third attempt.
C12_WitnessLater ==
  /\ call.seen = <<503, 500, 204>>
  /\ call.outcome = "return"

\* 429 or 500..599
Retryable(status) == status = 429 \/ status \in 500..599

\* C13: shopifyRequest repeats a request only after a 429 or 5xx response and
\* only when retryOnThrottle is not false: any other non-2xx status fails the
\* call after exactly one request, a call with retryOnThrottle false sends
\* one request, and the token exchange sends exactly one request whatever
\* the status.
C13_RetriesOnlyThrottled ==
  /\ \A i \in 1..(Len(call.seen) - 1) : Retryable(call.seen[i]) /\ call.retryOnThrottle
  /\ \A p \in Procs : \A i \in 1..Len(procs[p].seen) :
        Retryable(procs[p].seen[i]) /\ procs[p].retryOnThrottle
  /\ call.outcome # "none" =>
        /\ (~Is2xx(call.seen[1]) /\ ~Retryable(call.seen[1])) =>
              (call.fetches = 1 /\ call.outcome = "throw")
        /\ ~call.retryOnThrottle => call.fetches = 1
  /\ \A p \in Procs :
        /\ procs[p].pc # "delayToken"
        /\ procs[p].pc = "fetchToken" =>
              (procs[p].fetches = 1 /\ procs[p].attempt = 0 /\ ~procs[p].retryOnThrottle)

\* A call with retries was answered 404 and threw after one request, and
\* now the token-exchange request of a callback is awaiting its answer.
C13_Witness ==
  /\ call = EndedCall(TRUE, <<404>>, 1, "throw", <<>>)
  /\ procs[1].pc = "fetchToken"

\* A call without retries was answered 429 and threw after one request.
C13_WitnessNoRetry == call = EndedCall(FALSE, <<429>>, 1, "throw", <<>>)

\* ------------------------------------------------ claims on the session store
\* C15: the session store holds at most one session per storefront and
\* loadSession(shop) returns the session of the latest completed saveSession
\* for the shop, also after a restart and reload.
C15_LoadsLatestCompleted ==
  /\ \A shop \in Shops : Cardinality(SessionsGet(sessions, shop)) <= 1
  /\ loaded.session = loaded.latest

\* What holds: one session per storefront, in memory and in the file.
C15_OnePerShop ==
  /\ \A shop \in Shops : Cardinality(SessionsGet(sessions, shop)) <= 1
  /\ \A shop \in Shops : Cardinality(SessionsGet(sessionFile.data, shop)) <= 1

\* ------------------------------------------------------ claims on durability
\* the step of initialize() that completes a reload after a restart
ReloadCompletes == restarts >= 1 /\ initStep = "webhooks" /\ initStep' = "done"

\* C16: round-trip durability: after any sequence of completed saveSession,
\* saveState, consumeState and recordWebhook operations, restarting the
\* process and reloading the three files yields session, nonce and
\* webhook-event collections identical to those in memory just before the
\* restart.
C16_RoundTrip ==
  [][ReloadCompletes => Store(sessions', states', webhookEvents') = atRestart]_vars

\* What holds: the sessions and the nonces are reloaded as they were, and
\* the webhook events but for an id that was NaN.
C16_RoundTripButNaN ==
  [][ReloadCompletes =>
       /\ sessions' = atRestart.sessions
       /\ states' = atRestart.states
       /\ webhookEvents' = JSONstringify(atRestart.webhookEvents)]_vars

\* --------------------------------------------------- claims on failed writes
\* The routes and the storage operations one after the other, where every
\* write of a file may be rejected.
NextReject ==
  \/ initialize
  \/ restoreSessions
  \/ restoreStates
  \/ restoreWebhooks
  \/ auth(1, ShopA)
  \/ saveState(1)
  \/ authRedirect(1)
  \/ authCaught(1)
  \/ \E n \in Keys(issued) :
       callback(1, ShopA, "code", n, Hmac(apiSecret, <<"code", ShopA, n>>))
  \/ \E n \in Keys(issued) : validateState(1, n, ShopA)
  \/ consumeState(1)
  \/ callbackValidated(1)
  \/ callbackStateFailed(1)
  \/ consumeStateWritten(1)
  \/ consumeStateFailed(1)
  \/ tokenResponse(1, 200)
  \/ saveSession(1)
  \/ saveSessionWritten(1)
  \/ saveSessionFailed(1)
  \/ webhookResponse(1, 200)
  \/ saveSessionCall(1, ShopA, "shpat_1")
  \/ sessionWritten(1)
  \/ sessionFailed(1)
  \/ \E body \in {"{\"id\":1}"} :
       webhookPost(1, body, Base64Digest(apiSecret, body), "products/update", ShopA)
  \/ recordWebhook(1)
  \/ recordWebhookWritten(1)
  \/ recordWebhookFailed(1)

SpecReject == Init /\ [][NextReject]_vars

\* a response that reports success: 2xx, or the redirect of GET /auth
Succeeded(status) == status >= 200 /\ status <= 399

\* A step in which the write a process was waiting for was rejected: the
\* process leaves persist*() and the file, which the write would have
\* changed, is as it was.
WriteRejected(p) ==
  \/ /\ procs[p].pc = "persistStates" /\ procs'[p].pc # "persistStates"
     /\ stateFile' = stateFile /\ stateFile # File(procs[p].payload)
  \/ /\ procs[p].pc = "persistSessions" /\ procs'[p].pc # "persistSessions"
     /\ sessionFile' = sessionFile /\ sessionFile # File(procs[p].payload)
  \/ /\ procs[p].pc = "persistWebhooks" /\ procs'[p].pc # "persistWebhooks"
     /\ webhookFile' = webhookFile /\ webhookFile # File(procs[p].log)

\* C17: a failed durable write is never reported as success: when the file
\* write inside saveSession, saveState, consumeState or recordWebhook fails,
\* the operation fails to its caller (the handler stops there, a
\* validateState call ends with a throw, a saveSession call completes
\* nothing), and the request is not answered with a success response.
C17_NoSuccessAfterRejectedWrite ==
  [][\A p \in Procs :
       WriteRejected(p) =>
         /\ procs'[p] = IdleProc
         /\ \A r \in replies' \ replies : ~Succeeded(r.status)
         /\ issued' = issued
         /\ completed' = completed
         /\ procs[p].kind \in {"validate", "callback"} /\ procs[p].pc = "persistStates" =>
              \E c \in tried'[procs[p].nonce] : c.status = "throw"]_vars

\* The writes of saveState in GET /auth, of saveSession in the callback and
\* of recordWebhook in POST /webhooks/products were each rejected, the map or
\* the log is ahead of its file, and each route answered with its catch
\* block.
C17_Witness ==
  /\ \A p \in Procs : procs[p] = IdleProc
  /\ states # {} /\ stateFile.data = {} /\ Caught("auth") \in replies
  /\ sessions # {} /\ ~sessionFile.exists /\ Caught("callback") \in replies
  /\ Len(webhookEvents) > 0 /\ ~webhookFile.exists /\ Caught("webhook") \in replies

\* -------------------------------------------------- claims on product pages
\* One storefront with a session, a catalog the upstream serves as a chain of
\* pages, and the two ways to read it one after the other: fetchProducts, and
\* fetchProductsPage called again with each nextPageInfo it returned; the
\* upstream answers 200 or throttles.
NextPages ==
  \/ initialize
  \/ restoreSessions
  \/ restoreStates
  \/ restoreWebhooks
  \/ saveSessionCall(1, ShopA, "shpat_1")
  \/ saveSession(1)
  \/ sessionWritten(1)
  \/ \E chain \in Chains : stock(chain)
  \/ fetchProducts(1, ShopA)
  \/ fetchProductsPage(1, ShopA, NextCursor(walk))
  \/ getSession(1)
  \/ \E status \in {200, 429} : pageResponse(1, status)
  \/ delayElapsed(1)

SpecPages == Init /\ [][NextPages]_vars

RECURSIVE Flatten(_)
Flatten(pages) ==
  IF pages = <<>> THEN <<>>
  ELSE Flatten(SubSeq(pages, 1, Len(pages) - 1)) \o pages[Len(pages)]

\* C18: for every upstream that serves a finite chain of pages, calling
\* fetchProductsPage repeatedly with each returned nextPageInfo ends with a
\* page that has no nextPageInfo (the k-th call returns the k-th page of the
\* chain, and only the last page comes without a nextPageInfo), and
\* fetchProducts returns exactly the concatenation of those pages' products
\* in the same order.
C18_PagesConcatenate ==
  /\ Len(walk) <= Len(catalog)
  /\ \A i \in 1..Len(walk) :
       /\ walk[i].products = catalog[i]
       /\ walk[i].nextPageInfo = NoPageInfo <=> i = Len(catalog)
  /\ fetched.outcome = "return" => fetched.products = Flatten(catalog)
  /\ fetched.outcome = "return" /\ walk # <<>> /\ NextCursor(walk) = NoPageInfo =>
       fetched.products = Flatten([i \in 1..Len(walk) |-> walk[i].products])

\* A chain of more than one page was read to its end both ways, and the
\* products came in the order of the pages.
C18_Witness ==
  /\ Len(catalog) >= 2
  /\ Len(walk) = Len(catalog)
  /\ NextCursor(walk) = NoPageInfo
  /\ fetched.outcome = "return"
  /\ Len(fetched.products) >= 3
  /\ fetched.products[1] = 3

\* GET /products for a storefront with a session, with every form of the
\* limit parameter.
NextProducts ==
  \/ initialize
  \/ restoreSessions
  \/ restoreStates
  \/ restoreWebhooks
  \/ saveSessionCall(1, ShopA, "shpat_1")
  \/ saveSession(1)
  \/ sessionWritten(1)
  \/ \E chain \in Chains : stock(chain)
  \/ \E shop \in {ShopA, ShopB, BadShop, Missing}, limit \in LimitParams :
       products(1, shop, NoPageInfo, limit)
  \/ routeSession(1)
  \/ getSession(1)
  \/ \E status \in {200, 429} : pageResponse(1, status)
  \/ delayElapsed(1)

SpecProducts == Init /\ [][NextProducts]_vars

\* C19: for every limit value the /products route can pass to
\* fetchProductsPage (parameter absent, zero, negative, above 250,
\* non-numeric), the limit sent to the upstream API is within [1, 250].
C19_LimitInRange ==
  request.sent => request.limit >= MinLimit /\ request.limit <= MaxLimit

\* What holds: the limit sent is within [1, 250] or it is NaN.
C19_LimitInRangeOrNaN ==
  request.sent =>
    \/ request.limit >= MinLimit /\ request.limit <= MaxLimit
    \/ request.limit = NaN

\* ----------------------------------------------- claims on the webhook log
\* C20: recorded webhook events are deduplicated by the payload's own
\* identifier where present: after ingesting several verified notifications
\* that carry the same payload id, the log holds one event for that id.
C20_OneEventPerPayloadId ==
  \A i, j \in 1..Len(webhookEvents) :
    /\ webhookEvents[i].payload.hasId
    /\ webhookEvents[j].payload.hasId
    /\ webhookEvents[i].id = webhookEvents[j].id
    => i = j

\* What holds: recordWebhook appends, so the log holds one event for each
\* verified notification that was parsed, in the order of arrival.
C20_OneEventPerNotification ==
  \A p \in Procs :
    procs[p].pc = "persistWebhooks" =>
      /\ Len(webhookEvents) >= 1
      /\ \E i \in 1..Len(webhookEvents) : webhookEvents[i] = procs[p].event

\* Deliveries signed by Shopify are recorded and the log is listed,
\* concurrently, while the clock advances.
NextLog ==
  \/ initialize
  \/ restoreSessions
  \/ restoreStates
  \/ restoreWebhooks
  \/ \E p \in Procs, body \in {"{\"id\":1}", "{}"} :
       webhookPost(p, body, Base64Digest(apiSecret, body), "products/update", ShopA)
  \/ \E p \in Procs : recordWebhook(p)
  \/ \E p \in Procs : recordWebhookWritten(p)
  \/ \E p \in Procs : recordWebhookFailed(p)
  \/ \E p \in Procs : listWebhooksCall(p)
  \/ \E p \in Procs : listWebhooks(p)
  \/ Tick

SpecLog == Init /\ [][NextLog]_vars

\* a is the beginning of b
IsPrefix(a, b) == Len(a) <= Len(b) /\ SubSeq(b, 1, Len(a)) = a
\* how often e occurs in seq
Occurrences(e, seq) == Cardinality({i \in 1..Len(seq) : seq[i] = e})
\* the step in which listWebhooks returns to process p
Lists(p) == procs[p].pc = "listWebhooks" /\ procs'[p].pc = "idle"

\* C21: the webhook log is append-only and listed newest first: no operation
\* removes or changes an already recorded event, and listWebhooks returns
\* every recorded event exactly once in non-increasing receivedAt order
\* without changing the stored log.
C21_AppendOnlyNewestFirst ==
  [][/\ IsPrefix(webhookEvents, webhookEvents')
     /\ \A p \in Procs :
          Lists(p) =>
            /\ webhookEvents' = webhookEvents
            /\ Len(listed') = Len(webhookEvents)
            /\ \A e \in Range(webhookEvents) :
                 Occurrences(e, listed') = Occurrences(e, webhookEvents)
            /\ \A i \in 1..(Len(listed') - 1) :
                 listed'[i].receivedAt >= listed'[i + 1].receivedAt]_vars

\* Two events received at different instants were listed, the newer one
\* first, while the log holds the older one first.
C21_Witness ==
  /\ Len(listed) = 2
  /\ listed[1].receivedAt > listed[2].receivedAt
  /\ Len(webhookEvents) = 2
  /\ webhookEvents[1] = listed[2]
  /\ webhookEvents[2] = listed[1]

\* ---------------------------------------------- claims on the subscriptions
\* Calls of registerProductWebhooks one after the other, for either
\* storefront and a rejected domain; the upstream answers each request with
\* any status.
NextRegister ==
  \/ \E shop \in Shops \cup {BadShop} : registerProductWebhooks(1, shop)
  \/ \E status \in AllStatuses : webhookResponse(1, status)
  \/ delayElapsed(1)

SpecRegister == Init /\ [][NextRegister]_vars

\* the topics of the README, in the order of the code
ProductTopics == <<"products/create", "products/update", "products/delete">>

\* C22: registerProductWebhooks issues one subscription call (with its
\* retries, at most MAX_RETRIES + 1 requests) for each of the three topics
\* products/create, products/update, products/delete, in this order; when
\* one topic fails after retries the failure is reported to the caller (the
\* call throws and no further topic is requested) and the topics already
\* registered are not rolled back (their subscriptions stay requested).
C22_OneCallPerTopic ==
  /\ \A p \in Procs :
       procs[p].pc \in {"fetchWebhook", "delayWebhook"} =>
         /\ procs[p].fetches <= MAX_RETRIES + 1
         /\ procs[p].accepted = SubSeq(ProductTopics, 1, procs[p].topic - 1)
         /\ \A i \in 1..procs[p].topic :
              [shop |-> procs[p].shop, topic |-> ProductTopics[i]] \in subscribed
  /\ registration.outcome = "return" => registration.accepted = ProductTopics
  /\ registration.outcome = "throw" =>
       /\ Len(registration.accepted) < Len(ProductTopics)
       /\ registration.accepted = SubSeq(ProductTopics, 1, Len(registration.accepted))
       /\ registration.failed = ProductTopics[Len(registration.accepted) + 1]
  /\ registration.outcome \in {"return", "throw"} =>
       \A i \in 1..Len(registration.accepted) :
         [shop |-> registration.shop, topic |-> registration.accepted[i]] \in subscribed

\* A call ended with a throw at the third topic after the first two were
\* registered, and both stay requested for the storefront.
C22_Witness ==
  /\ registration.outcome = "throw"
  /\ registration.accepted = <<"products/create", "products/update">>
  /\ registration.failed = "products/delete"
  /\ [shop |-> registration.shop, topic |-> "products/create"] \in subscribed
  /\ [shop |-> registration.shop, topic |-> "products/update"] \in subscribed
  /\ \A p \in Procs : procs[p].pc = "idle"

\* ------------------------------------------------ claims on the shop domain
\* sanitizeShopDomain is called with every shop parameter of up to MaxLen
\* characters.
NextSanitize ==
  \E shopDomain \in ShopParams : sanitizeShopDomainCall(shopDomain)

SpecSanitize == Init /\ [][NextSanitize]_vars

\* string is white space, then a domain of the canonical pattern from i to j,
\* then white space
CanonicalAt(string, i, j) ==
  /\ \A k \in 1..(i - 1) : string[k] = " "
  /\ \A k \in (j + 1)..Len(string) : string[k] = " "
  /\ j - i >= 2
  /\ string[i] = "a"
  /\ \A k \in (i + 1)..(j - 2) : string[k] \in {"a", "-"}
  /\ string[j - 1] = "."
  /\ string[j] = "myshopify.com"

\* C23: sanitizeShopDomain returns the input with surrounding whitespace
\* removed exactly when the trimmed input matches
\* ^[A-Za-z0-9][A-Za-z0-9-]*\.myshopify\.com$ and rejects every other input
\* (empty, malformed, foreign domain); applying it to its own result returns
\* the same value.
C23_ReturnsTrimmedCanonical ==
  sanitized.called =>
    LET string == sanitized.input
        spans == {x \in (1..Len(string)) \X (1..Len(string)) :
                    CanonicalAt(string, x[1], x[2])} IN
    /\ sanitized.result.outcome = "return" <=> spans # {}
    /\ \A x \in spans : sanitized.result = Return(SubSeq(string, x[1], x[2]))
    /\ sanitized.result.outcome = "return" => sanitized.again = sanitized.result
    /\ sanitized.result.outcome = "throw" => sanitized.again = Throw

\* A domain of the pattern with white space on both sides was returned
\* without it.
C23_Witness ==
  /\ sanitized.called
  /\ sanitized.input = <<" ", "a", ".", "myshopify.com", " ">>
  /\ sanitized.result = Return(<<"a", ".", "myshopify.com">>)
  /\ sanitized.again = sanitized.result

\* A foreign domain that begins like a storefront was rejected.
C23_WitnessForeign ==
  /\ sanitized.called
  /\ sanitized.input = <<"a", ".", "myshopify.com", ".", "a">>
  /\ sanitized.result = Throw

\* ----------------------------------------------- claims on the callback hmac
\* verifyCallbackHmac is called with a query that carries the hmac Shopify
\* computed over three strings, and for code, shop and state any value, in
\* any order of arrival, without a signature parameter or with one of any
\* value.
NextVerify ==
  \E signed \in [SignedKeys -> {String(text) : text \in Texts}],
     values \in [SignedKeys \cup {"signature"} -> Values],
     keys \in {SignedKeys, SignedKeys \cup {"signature"}} :
    \E order \in Orders(keys) : verifyCallbackHmacCall(signed, values, order)

SpecVerify == Init /\ [][NextVerify]_vars

\* the value the query carries for a key
ValueOf(entries, key) ==
  (CHOOSE e \in {entries[i] : i \in 1..Len(entries)} : e.key = key).value

\* C24: verifyCallbackHmac accepts a query whose hmac equals the HMAC of the
\* canonical string built from the remaining parameters, independently of
\* the order in which the parameters arrive and of the presence or value of
\* a signature parameter, and rejects the query once the value of any other
\* single parameter is changed.
C24_AcceptsOnlyTheSignedValues ==
  verified.called =>
    (verified.result <=>
       \A key \in SignedKeys : ValueOf(verified.entries, key) = verified.signed[key])

\* What holds: the query is accepted exactly when each value, an array
\* joined with commas, reads as the string that was signed.
C24_AcceptsTheSignedTexts ==
  verified.called =>
    (verified.result <=>
       \A key \in SignedKeys :
         queryParam(ValueOf(verified.entries, key)) = queryParam(verified.signed[key]))

\* A query was accepted with its parameters in reverse order and a signature
\* parameter first.
C24_WitnessAccepted ==
  /\ verified.called
  /\ verified.result
  /\ Len(verified.entries) = 4
  /\ verified.entries[1].key = "signature"
  /\ verified.entries[2].key = "state"
  /\ verified.entries[4].key = "code"

\* ------------------------------------------- claims on concurrent mutations
\* Mutations of each collection run concurrently and every write completes,
\* in any order: saveSession for either storefront, saveState for each new
\* nonce, consumeState, and recordWebhook for signed deliveries.
NextRace ==
  \/ initialize
  \/ restoreSessions
  \/ restoreStates
  \/ restoreWebhooks
  \/ \E p \in Procs, shop \in Shops : saveSessionCall(p, shop, "shpat_1")
  \/ \E p \in Procs : saveSession(p)
  \/ \E p \in Procs : sessionWritten(p)
  \/ \E p \in Procs : buildAuthUrl(p, ShopA)
  \/ \E p \in Procs : saveState(p)
  \/ \E p \in Procs : saveStateWritten(p)
  \/ \E p \in Procs, n \in Keys(issued) : validateState(p, n, ShopA)
  \/ \E p \in Procs : consumeState(p)
  \/ \E p \in Procs : consumeStateWritten(p)
  \/ \E p \in Procs, body \in {"{\"id\":1}", "{}"} :
       webhookPost(p, body, Base64Digest(apiSecret, body), "products/update", ShopA)
  \/ \E p \in Procs : recordWebhook(p)
  \/ \E p \in Procs : recordWebhookWritten(p)

SpecRace == Init /\ [][NextRace]_vars

\* no operation is in flight: every write that was issued has completed
AllWritesCompleted == \A p \in Procs : procs[p].pc = "idle"

\* C25: under any interleaving of concurrent mutations of one collection
\* (saveSession, saveState, consumeState, recordWebhook), whose file writes
\* may complete in any order, once all writes have completed the persisted
\* file equals the in-memory collection: no mutation is lost on disk.
C25_FilesEqualMemory ==
  AllWritesCompleted =>
    /\ sessionFile.data = sessions
    /\ stateFile.data = states
    /\ webhookFile.data = JSONstringify(webhookEvents)

\* ------------------------------------------------ claims on initialization
\* The storage operations are called concurrently, in a process that starts
\* without files and in the process that follows a restart and finds them.
NextReload ==
  \/ initialize
  \/ restoreSessions
  \/ restoreStates
  \/ restoreWebhooks
  \/ \E p \in Procs : saveSessionCall(p, ShopA, "shpat_1")
  \/ \E p \in Procs : saveSession(p)
  \/ \E p \in Procs : sessionWritten(p)
  \/ \E p \in Procs : loadSessionCall(p, ShopA)
  \/ \E p \in Procs : loadSession(p)
  \/ \E p \in Procs : FirstHandshake /\ buildAuthUrl(p, ShopA)
  \/ \E p \in Procs : saveState(p)
  \/ \E p \in Procs : saveStateWritten(p)
  \/ \E p \in Procs : listWebhooksCall(p)
  \/ \E p \in Procs : listWebhooks(p)
  \/ Restart

SpecReload == Init /\ [][NextReload]_vars

\* C26: reload before serve: under any interleaving of concurrent first calls
\* to the storage operations, initialize runs at most once in a process (it
\* starts only from the state in which the module was loaded, and no
\* persisted entry is loaded twice: each collection is what its file holds
\* when it has been restored) and no operation reads or mutates the
\* in-memory sessions, nonces or webhook log before all three collections
\* have been restored.
C26_ReloadBeforeServe ==
  [][/\ initStep' = "mkdir" /\ initStep # "mkdir" =>
          initStep = "idle" /\ initPromise = "null" /\ ~initialized
     /\ initStep = "sessions" /\ initStep' = "states" => sessions' = sessionFile.data
     /\ initStep = "states" /\ initStep' = "webhooks" => states' = stateFile.data
     /\ initStep = "webhooks" /\ initStep' = "done" =>
          webhookEvents' = webhookFile.data
     /\ \A p \in Procs :
          procs[p].pc \in AwaitsInitialized /\ procs'[p] # procs[p] => initStep = "done"
     /\ storeVars' # storeVars =>
          \/ initStep \in {"sessions", "states", "webhooks"} /\ initStep' # initStep
          \/ initStep = "done"
          \/ restarts' # restarts]_vars

\* After a restart two operations wait together for the one initialize()
\* that is restoring files that hold entries.
C26_Witness ==
  /\ restarts = 1
  /\ initStep = "states"
  /\ sessionFile.data # {}
  /\ sessions = sessionFile.data
  /\ stateFile.data # {}
  /\ states = {}
  /\ \A p \in Procs : procs[p].pc \in AwaitsInitialized
  /\ procs[1].pc # procs[2].pc

\* ---------------------------------------------- claims on the write-through
\* C27: the in-memory collections are a write-through view and never run
\* ahead of the backing store: when the durable write of saveSession,
\* saveState, consumeState or recordWebhook fails, the in-memory collection
\* is left as it was before the operation, so that, with one operation at a
\* time, memory and files agree whenever no operation is in flight and a
\* later loadSession, validateState or listWebhooks does not expose a
\* mutation that was not persisted.
C27_MemoryNeverAhead ==
  (initStep = "done" /\ \A p \in Procs : procs[p].pc = "idle") =>
    /\ sessions = sessionFile.data
    /\ states = stateFile.data
    /\ JSONstringify(webhookEvents) = webhookFile.data

\* ------------------------------------------- claims on a failed restoration
\* The storage operations are called, one at a time, in a process that may
\* fail to restore one of its files, and in the process that follows a
\* restart.
NextCorrupt ==
  \/ initialize
  \/ restoreSessions
  \/ restoreStates
  \/ restoreWebhooks
  \/ \E step \in {"sessions", "states", "webhooks"} : restoreThrows(step)
  \/ \E p \in {1} : ensureInitializedThrows(p)
  \/ \E p \in {1} : saveSessionCall(p, ShopA, "shpat_1")
  \/ \E p \in {1} : saveSession(p)
  \/ \E p \in {1} : sessionWritten(p)
  \/ \E p \in {1} : loadSessionCall(p, ShopA)
  \/ \E p \in {1} : loadSession(p)
  \/ \E p \in {1} : FirstHandshake /\ buildAuthUrl(p, ShopA)
  \/ \E p \in {1} : saveState(p)
  \/ \E p \in {1} : saveStateWritten(p)
  \/ \E p \in {1}, n \in Keys(issued) : validateState(p, n, ShopA)
  \/ \E p \in {1} : consumeState(p)
  \/ \E p \in {1} : consumeStateWritten(p)
  \/ \E p \in {1} :
       webhookPost(p, "{\"id\":1}", Base64Digest(apiSecret, "{\"id\":1}"), "products/update",
                   ShopA)
  \/ \E p \in {1} : recordWebhook(p)
  \/ \E p \in {1} : recordWebhookWritten(p)
  \/ \E p \in {1} : listWebhooksCall(p)
  \/ \E p \in {1} : listWebhooks(p)
  \/ Restart

SpecCorrupt == Init /\ [][NextCorrupt]_vars

\* the positions at which an operation has issued its write
AwaitsWrite == {"persistSessions", "persistStates", "persistWebhooks"}

\* C28: when restoring any of the three persisted files fails for a reason
\* other than the file being absent, no storage operation ever succeeds
\* afterwards in that process: until the process is restarted the promise
\* stays rejected and initialized stays false, every saveSession,
\* loadSession, saveState, consumeState, recordWebhook and listWebhooks that
\* waits for the initialization ends by throwing, none of them reads or
\* changes a collection or writes a file, so no request is served from a
\* partially loaded state.
C28_NothingSucceedsAfterFailedRestore ==
  [][initPromise = "rejected" /\ restarts' = restarts =>
       /\ initPromise' = "rejected"
       /\ ~initialized'
       /\ storeVars' = storeVars
       /\ fileVars' = fileVars
       /\ loaded' = loaded
       /\ listed' = listed
       /\ \A p \in Procs :
            /\ procs'[p].pc \notin AwaitsWrite
            /\ procs[p].pc \in AwaitsInitialized /\ procs'[p] # procs[p] =>
                 /\ procs'[p] = IdleProc
                 /\ procs[p].kind = "webhook" => Caught("webhook") \in replies'
                 /\ procs[p].kind = "validate" =>
                      \E c \in tried'[procs[p].nonce] : c.status = "throw"]_vars

\* After a restart the sessions were restored and restoring states.json
\* failed, with a nonce in the file; a validateState called in that process
\* threw, and an operation is waiting.
C28_Witness ==
  /\ restarts = 1
  /\ initPromise = "rejected"
  /\ sessions # {}
  /\ sessions = sessionFile.data
  /\ stateFile.data # {}
  /\ states = {}
  /\ \E n \in Nonces : \E c \in tried[n] : c.status = "throw"
  /\ \E p \in Procs : procs[p].pc \in AwaitsInitialized

\* --------------------------------------- claims on a failed registration
\* One handshake is begun and its callback arrives; the token exchange is
\* answered with 200, the subscription requests are accepted, refused or
\* throttled; pages of products are fetched for the storefront before and
\* after it. Every write succeeds.
NextPartial ==
  \/ initialize
  \/ restoreSessions
  \/ restoreStates
  \/ restoreWebhooks
  \/ FirstHandshake /\ buildAuthUrl(1, ShopA)
  \/ saveState(1)
  \/ saveStateWritten(1)
  \/ \E n \in Keys(issued) :
       callback(1, ShopA, "code", n, Hmac(apiSecret, <<"code", ShopA, n>>))
  \/ consumeState(1)
  \/ callbackValidated(1)
  \/ tokenResponse(1, 200)
  \/ saveSession(1)
  \/ saveSessionWritten(1)
  \/ \E status \in {200, 404, 429} : webhookResponse(1, status)
  \/ delayElapsed(1)
  \/ \E chain \in Chains : stock(chain)
  \/ fetchProductsPage(1, ShopA, NoPageInfo)
  \/ getSession(1)
  \/ pageResponse(1, 200)

SpecPartial == Init /\ [][NextPartial]_vars

\* the handshake was answered with the error of the route's catch
RegistrationFailed == Reply("callback", 500, "error") \in replies

\* C29: a handshake whose token exchange succeeded but whose subscription
\* registration failed is answered with an error and not with success, yet
\* the session stored by exchangeToken stays in the session store and in
\* sessions.json and the nonce stays consumed, in memory and in states.json:
\* the failure rolls back nothing, and a later fetchProductsPage for that
\* shop finds a session and sends its request.
C29_FailedRegistrationKeepsSession ==
  [][RegistrationFailed' =>
       /\ Reply("callback", 200, "success") \notin replies'
       /\ \E n \in Keys(issued') :
            /\ exchanged'[n] = 1
            /\ StatesGet(states', n) = {}
            /\ StatesGet(stateFile'.data, n) = {}
       /\ SessionsGet(sessions', ShopA) # {}
       /\ sessionFile'.data = sessions'
       /\ [shop |-> ShopA, topic |-> Topics[1]] \in subscribed'
       /\ procs[1].pc = "getSession" /\ procs'[1] # procs[1] =>
            /\ procs'[1].pc = "fetchPage"
            /\ request'.sent]_vars

\* The second subscription request was refused after the first was accepted,
\* and a page of products was fetched for the storefront afterwards.
C29_Witness ==
  /\ RegistrationFailed
  /\ [shop |-> ShopA, topic |-> Topics[2]] \in subscribed
  /\ [shop |-> ShopA, topic |-> Topics[3]] \notin subscribed
  /\ request.sent
  /\ walk # <<>>
  /\ procs[1].pc = "idle"

====
